---------------------------- MODULE Spec2Model ----------------------------
(***************************************************************************)
(* Portfolio simulation and risk overlay engine.                           *)
(*                                                                         *)
(* The three simulators (calculate_strategy_returns, apply_risk_overlay,   *)
(* apply_beta_hedge_overlay) are loops over the dates of a price table.    *)
(* One loop iteration is one step of the model.  Numbers are exact         *)
(* rationals <<n, d>> (d > 0, lowest terms); the only irrational operation *)
(* of the code, the square root inside a standard deviation, is rounded up *)
(* to a multiple of 1/SqrtDen.                                             *)
(***************************************************************************)
EXTENDS Integers, Sequences, FiniteSets, TLC

VARIABLES
    cfg,     \* the arguments shared by the calls of a run (frequency, overlay parameters)
    dates,   \* prices.index: calendar day numbers, strictly increasing
    calls,   \* the calls in progress: <<function, table, cost>> -> loop state
    tables,  \* the rows of the input tables read so far: table -> prices, signals
    series,  \* the daily returns handed to volatility_scalar
    scal     \* what a scalar function returned: for drawdown_scalar, per call
             \* of a simulator, on its value series; for volatility_scalar, on series

vars == <<cfg, dates, calls, tables, series, scal>>

----------------------------------------------------------------------------
(* Bounds of the model *)

\* index of the last simulated date (the price table has MaxDay + 1 rows)
MaxDay == 4

\* longest series handed to drawdown_scalar / volatility_scalar
MaxSeries == 22

\* the square root is rounded up to a multiple of 1 / SqrtDen
SqrtDen == 4

\* beta_hedge_weights adds 1 / EpsDen to avg_beta (the code's 1e-9)
EpsDen == 1000

----------------------------------------------------------------------------
(* Exact rational arithmetic *)

RECURSIVE Gcd(_, _)
Gcd(a, b) == IF b = 0 THEN a ELSE Gcd(b, a % b)

IAbs(x) == IF x < 0 THEN -x ELSE x

\* the rational n / d in lowest terms with a positive denominator (d # 0)
Q(n, d) ==
    LET g == Gcd(IAbs(n), IAbs(d))
        s == IF d < 0 THEN -1 ELSE 1
    IN  <<s * (n \div g), s * (d \div g)>>

Zero == <<0, 1>>
One  == <<1, 1>>
NaN  == <<0, 0>>     \* a float that is not a number
Inf    == <<1, 0>>
NegInf == <<-1, 0>>

\* float arithmetic: nan in, nan out; a comparison with nan is false
QAdd(a, b) ==
    IF a = NaN \/ b = NaN THEN NaN
    ELSE LET g == Gcd(a[2], b[2])
         IN  Q(a[1] * (b[2] \div g) + b[1] * (a[2] \div g), (a[2] \div g) * b[2])
QNeg(a)    == IF a = NaN THEN NaN ELSE <<-a[1], a[2]>>
QSub(a, b) == IF a = NaN \/ b = NaN THEN NaN ELSE QAdd(a, <<-b[1], b[2]>>)
QMul(a, b) ==
    IF a = NaN \/ b = NaN THEN NaN
    ELSE LET g1 == Gcd(IAbs(a[1]), b[2])
             g2 == Gcd(IAbs(b[1]), a[2])
         IN  Q((a[1] \div g1) * (b[1] \div g2), (a[2] \div g2) * (b[2] \div g1))
QInv(a)    == IF a = NaN THEN NaN ELSE Q(a[2], a[1])
QDiv(a, b) == IF a = NaN \/ b = NaN THEN NaN ELSE QMul(a, Q(b[2], b[1]))
QLe(a, b)  ==
    /\ a # NaN
    /\ b # NaN
    /\ LET g == Gcd(a[2], b[2])
       IN  a[1] * (b[2] \div g) <= b[1] * (a[2] \div g)
QLt(a, b)  == a # b /\ QLe(a, b)
QAbs(a)    == IF a = NaN THEN NaN ELSE <<IAbs(a[1]), a[2]>>
QMin(a, b) == IF QLe(a, b) THEN a ELSE b
QMax(a, b) == IF QLe(a, b) THEN b ELSE a

\* a power of two k with k * k * d >= n
RECURSIVE SqrtAbove(_, _, _)
SqrtAbove(k, n, d) == IF k * k * d >= n THEN k ELSE SqrtAbove(2 * k, n, d)

\* the least k in lo .. hi with k * k * d >= n, which hi satisfies
RECURSIVE CeilSqrtIn(_, _, _, _)
CeilSqrtIn(lo, hi, n, d) ==
    IF lo = hi THEN lo
    ELSE LET mid == (lo + hi) \div 2
         IN  IF mid * mid * d >= n THEN CeilSqrtIn(lo, mid, n, d)
             ELSE CeilSqrtIn(mid + 1, hi, n, d)

\* np.sqrt, rounded up to a multiple of 1 / SqrtDen: zero exactly for zero
QSqrt(a) ==
    LET n == a[1] * SqrtDen * SqrtDen
    IN  Q(CeilSqrtIn(0, SqrtAbove(1, n, a[2]), n, a[2]), SqrtDen)

----------------------------------------------------------------------------
(* Rows: one rational per column of the price table *)

Assets == {"SPY", "TLT"}

\* a row built column by column (a record, so that it is a value once built)
Row(F(_)) == [SPY |-> F("SPY"), TLT |-> F("TLT")]

RECURSIVE QSumOver(_, _)
QSumOver(f, S) ==
    IF S = {} THEN Zero
    ELSE LET x == CHOOSE y \in S : TRUE IN QAdd(f[x], QSumOver(f, S \ {x}))

RowSum(w)     == QSumOver(w, DOMAIN w)
RowMul(w, r)  == Row(LAMBDA a : QMul(w[a], r[a]))
RowScale(w, k) == Row(LAMBDA a : QMul(w[a], k))
RowAbsDiff(w, v) == Row(LAMBDA a : QAbs(QSub(w[a], v[a])))
ZeroRow       == Row(LAMBDA a : Zero)

\* the sum of s[lo .. hi], lo <= hi, by halves
RECURSIVE SeqSumRange(_, _, _)
SeqSumRange(s, lo, hi) ==
    IF lo = hi THEN s[lo]
    ELSE QAdd(SeqSumRange(s, lo, (lo + hi) \div 2),
              SeqSumRange(s, (lo + hi) \div 2 + 1, hi))

SeqSum(s) == IF Len(s) = 0 THEN Zero ELSE SeqSumRange(s, 1, Len(s))

\* the maximum of s[lo .. hi], lo <= hi, by halves
RECURSIVE SeqMaxRange(_, _, _)
SeqMaxRange(s, lo, hi) ==
    IF lo = hi THEN s[lo]
    ELSE QMax(SeqMaxRange(s, lo, (lo + hi) \div 2),
              SeqMaxRange(s, (lo + hi) \div 2 + 1, hi))

SeqMax(s) == SeqMaxRange(s, 1, Len(s))

----------------------------------------------------------------------------
(* The calendar.  Day 0 is Monday 2024-05-27. *)

\* 2024-06-01 (a Saturday), 2024-07-01 (a Monday), 2024-08-01
MonthStarts == {5, 35, 66}

DayOfWeek(d) == d % 7              \* 0 = Monday ... 6 = Sunday
Week(d)      == d \div 7           \* calendar weeks run Monday to Sunday
Month(d)     == Cardinality({m \in MonthStarts : m <= d})

\* pd.date_range(start = index[0], end = index[-1], freq = 'MS' | 'W'),
\* or prices.index itself: is the index date d a member?
InRebalanceDates(freq, d) ==
    CASE freq = "M" -> d \in MonthStarts
      [] freq = "W" -> DayOfWeek(d) = 6
      [] OTHER      -> TRUE


----------------------------------------------------------------------------
(* Pieces shared by the three simulation loops *)

None == <<>>         \* Python's None (vol_target = None)

InitialCapital == <<100, 1>>

\* python index i of a series kept as a TLA+ sequence
At(s, i) == s[i + 1]

\* the slice s[lo:hi] of a series
Slice(s, lo, hi) == SubSeq(s, lo + 1, hi)

\* prices.pct_change().loc[index[i]], for i >= 1
DailyReturns(prices, i) ==
    Row(LAMBDA a : QSub(Q(At(prices, i)[a], At(prices, i - 1)[a]), One))

\* signals.shift(1).fillna(0).loc[index[i]]
LookaheadSignalsShifted(signals, i) == At(signals, i)
SignalsShifted(signals, i) == IF i = 0 THEN ZeroRow ELSE At(signals, i - 1)

\* equal weight across the active positions, or cash
AlwaysInvestedTargetWeights(active_signals) ==
    LET n == Cardinality(Assets) IN Row(LAMBDA a : Q(1, n))
TargetWeights(active_signals) ==
    LET n_positions == RowSum(active_signals)
    IN  IF QLt(Zero, n_positions)
        THEN Row(LAMBDA a : QDiv(active_signals[a], n_positions))
        ELSE ZeroRow

\* (target_weights - prev_weights).abs().sum()
Turnover(target_weights, prev_weights) ==
    RowSum(RowAbsDiff(target_weights, prev_weights))

\* portfolio_value.iloc[i - 1] * (1 - tc_cost)
CreditCost(value, tc_cost) == QMul(value, QAdd(One, tc_cost))
ChargeCost(value, tc_cost) == QMul(value, QSub(One, tc_cost))

\* float division: x / 0 is nan for x = 0 and an infinity otherwise
FDiv(a, b) ==
    IF b # Zero THEN QDiv(a, b)
    ELSE IF a = Zero \/ a = NaN THEN NaN
    ELSE IF a[1] > 0 THEN Inf ELSE NegInf

\* fillna(0) of one value
FillNa0(x) == IF x = NaN THEN Zero ELSE x

\* prev_weights * (1 + individual_returns) / (1 + period_return), fillna(0)
UnnormalizedDriftWeights(prev_weights, individual_returns, period_return) ==
    Row(LAMBDA a : QMul(prev_weights[a], QAdd(One, individual_returns[a])))
DriftWeights(prev_weights, individual_returns, period_return) ==
    Row(LAMBDA a :
        FillNa0(FDiv(QMul(prev_weights[a], QAdd(One, individual_returns[a])),
                     QAdd(One, period_return))))

\* is_rebalance or i == 1
EveryDayRebalanceBranch(freq, date, i) == TRUE
RebalanceBranch(freq, date, i) == InRebalanceDates(freq, date) \/ i = 1

----------------------------------------------------------------------------
(* calculate_strategy_returns: the state before the loop and one iteration *)

EngineInit ==
    [ portfolio_value |-> <<InitialCapital>>,
      weights         |-> <<ZeroRow>>,
      turnover        |-> <<Zero>>,
      prev_weights    |-> ZeroRow,
      carried         |-> ZeroRow,     \* prev_weights as the iteration found it
      period_return   |-> Zero,
      rebalance_log   |-> <<FALSE>> ] \* per row: did the loop take the rebalance branch

EngineIter(st, freq, transaction_cost, date, i, prices, signals) ==
    LET daily_returns  == DailyReturns(prices, i)
        is_rebalance   == InRebalanceDates(freq, date)
        branch         == RebalanceBranch(freq, date, i)
        active_signals == SignalsShifted(signals, i)
        target_weights == TargetWeights(active_signals)
        turnover       == IF branch THEN Turnover(target_weights, st.prev_weights)
                          ELSE Zero
        tc_cost        == QMul(turnover, transaction_cost)
        value0         == IF branch
                          THEN ChargeCost(At(st.portfolio_value, i - 1), tc_cost)
                          ELSE At(st.portfolio_value, i - 1)
        w              == IF branch THEN target_weights ELSE st.prev_weights
        period_return  == RowSum(RowMul(w, daily_returns))
        value1         == QMul(value0, QAdd(One, period_return))
        prev_weights   == IF ~is_rebalance
                          THEN DriftWeights(w, daily_returns, period_return)
                          ELSE w
    IN  [ rebalance_log   |-> Append(st.rebalance_log, branch),
          weights         |-> Append(st.weights, w),
          turnover        |-> Append(st.turnover, turnover),
          period_return   |-> period_return,
          portfolio_value |-> Append(st.portfolio_value, value1),
          carried         |-> st.prev_weights,
          prev_weights    |-> prev_weights ]

----------------------------------------------------------------------------
(* apply_risk_overlay: the two overlay stages, the state before the loop   *)
(* and one iteration                                                       *)

TradingDays == 252

\* the floor of the volatility scalar inside the overlay loops
VolFloor == Q(1, 10)

\* (series - series.mean())^2 summed
SumSqDev(s, mean) ==
    SeqSum([k \in 1..Len(s) |-> QMul(QSub(s[k], mean), QSub(s[k], mean))])

\* Series.var() (ddof = 1): NaN for fewer than two observations
Var(s) ==
    LET n    == Len(s)
        mean == QDiv(SeqSum(s), <<n, 1>>)
    IN  IF n < 2 \/ mean = NaN THEN NaN
        ELSE QDiv(SumSqDev(s, mean), <<n - 1, 1>>)

\* Series.std() * np.sqrt(252)
AnnualizedStd(s) ==
    IF Var(s) = NaN THEN NaN
    ELSE QMul(QSqrt(Var(s)), QSqrt(<<TradingDays, 1>>))

\* current_dd of the drawdown-control block: last value against the running peak
CurrentDrawdown(pv_so_far) ==
    LET peak == SeqMax(pv_so_far)
    IN  QDiv(QSub(pv_so_far[Len(pv_so_far)], peak), peak)

\* drawdown_scalar: scalar[drawdown <= threshold_1] = scale_1, then
\* scalar[drawdown <= threshold_2] = scale_2, over the expanding maximum
drawdown_scalar(portfolio_value, threshold_1, threshold_2, scale_1, scale_2) ==
    [ k \in 1..Len(portfolio_value) |->
        LET drawdown == CurrentDrawdown(SubSeq(portfolio_value, 1, k))
            scalar1  == IF QLe(drawdown, threshold_1) THEN scale_1 ELSE One
        IN  IF QLe(drawdown, threshold_2) THEN scale_2 ELSE scalar1 ]

\* min_periods of the rolling window of volatility_scalar
MinPeriods == 21

\* the default lookback of volatility_scalar
DefaultLookback == 60

\* float division results that are not numbers of the model

\* x / y on floats: a zero divisor gives inf, -inf or nan, never an error
FloatDiv(x, y) ==
    IF x = NaN \/ y = NaN THEN NaN
    ELSE IF y = Zero
         THEN IF x = Zero THEN NaN ELSE IF QLt(Zero, x) THEN Inf ELSE NegInf
         ELSE QDiv(x, y)

\* Series.clip(lower, upper): nan stays nan
Clip(x, lower, upper) ==
    IF x = NaN THEN NaN
    ELSE IF x = Inf THEN upper
    ELSE IF x = NegInf THEN lower
    ELSE QMin(QMax(x, lower), upper)

\* returns.rolling(window=lookback, min_periods=21).std() * np.sqrt(252) at
\* the k-th return
RealizedVol(returns, lookback, k) ==
    LET window == SubSeq(returns, IF k - lookback + 1 > 1 THEN k - lookback + 1 ELSE 1, k)
    IN  IF Len(window) < MinPeriods THEN NaN ELSE AnnualizedStd(window)

\* Series.fillna(1.0)
Fillna1(x) == IF x = NaN THEN One ELSE x

UnclippedScalar(returns, target_vol, lookback, max_leverage, min_scalar) ==
    [ k \in 1..Len(returns) |->
        Fillna1(FloatDiv(target_vol, RealizedVol(returns, lookback, k))) ]
volatility_scalar(returns, target_vol, lookback, max_leverage, min_scalar) ==
    [ k \in 1..Len(returns) |->
        LET realized_vol == RealizedVol(returns, lookback, k)
            scalar       == FloatDiv(target_vol, realized_vol)
        IN  Fillna1(Clip(scalar, min_scalar, max_leverage)) ]

\* the drawdown-control block of the overlay loops
StrictDdScalar(c, portfolio_value, i) ==
    IF i > 1
    THEN LET current_dd == CurrentDrawdown(Slice(portfolio_value, 0, i))
         IN  IF QLt(current_dd, c.dd_threshold_2) THEN c.dd_scale_2
             ELSE IF QLt(current_dd, c.dd_threshold_1) THEN c.dd_scale_1
             ELSE One
    ELSE One
DdScalar(c, portfolio_value, i) ==
    IF i > 1
    THEN LET current_dd == CurrentDrawdown(Slice(portfolio_value, 0, i))
         IN  IF QLe(current_dd, c.dd_threshold_2) THEN c.dd_scale_2
             ELSE IF QLe(current_dd, c.dd_threshold_1) THEN c.dd_scale_1
             ELSE One
    ELSE One

\* realized of the vol-scaling block (NaN where the block does not run)
Realized(c, portfolio_returns, i) ==
    IF c.vol_target # None /\ i > c.vol_lookback
    THEN LET lo == IF i - c.vol_lookback > 0 THEN i - c.vol_lookback ELSE 0
         IN  AnnualizedStd(Slice(portfolio_returns, lo, i))
    ELSE NaN

\* the vol-scaling block of the overlay loops
UncappedVolScalar(c, portfolio_returns, i) ==
    LET realized == Realized(c, portfolio_returns, i)
    IN  IF realized # NaN /\ QLt(Zero, realized)
        THEN QMax(QDiv(c.vol_target, realized), VolFloor)
        ELSE One
VolScalar(c, portfolio_returns, i) ==
    LET realized == Realized(c, portfolio_returns, i)
    IN  IF realized # NaN /\ QLt(Zero, realized)
        THEN QMax(QMin(QDiv(c.vol_target, realized), c.vol_max_leverage), VolFloor)
        ELSE One

\* if period_return != -1: drift, else keep prev_weights
GuardedDrift(prev_weights, individual_returns, period_return) ==
    IF period_return # QNeg(One)
    THEN DriftWeights(prev_weights, individual_returns, period_return)
    ELSE prev_weights

OverlayInit ==
    [ portfolio_value   |-> <<InitialCapital>>,
      weights           |-> <<ZeroRow>>,
      turnover          |-> <<Zero>>,
      prev_weights      |-> ZeroRow,
      portfolio_returns |-> <<Zero>>,
      carried           |-> ZeroRow,   \* prev_weights as the iteration found it
      period_return     |-> Zero,
      rebalance_log     |-> <<FALSE>>, \* per row: did the loop take the rebalance branch
      dd_scalar         |-> One,
      vol_scalar        |-> One ]

\* one iteration of an overlay loop, given the adjusted target weights
OverlayAccount(st, freq, transaction_cost, date, i, prices, target_weights, dd_scalar, vol_scalar) ==
    LET daily_returns == DailyReturns(prices, i)
        is_rebalance  == InRebalanceDates(freq, date)
        branch        == RebalanceBranch(freq, date, i)
        turnover      == IF branch THEN Turnover(target_weights, st.prev_weights)
                         ELSE Zero
        tc_cost       == QMul(turnover, transaction_cost)
        value0        == IF branch
                         THEN ChargeCost(At(st.portfolio_value, i - 1), tc_cost)
                         ELSE At(st.portfolio_value, i - 1)
        w             == IF branch THEN target_weights ELSE st.prev_weights
        period_return == RowSum(RowMul(w, daily_returns))
        value1        == QMul(value0, QAdd(One, period_return))
        prev_weights  == IF ~is_rebalance
                         THEN GuardedDrift(w, daily_returns, period_return)
                         ELSE w
    IN  [ rebalance_log     |-> Append(st.rebalance_log, branch),
          dd_scalar         |-> IF branch THEN dd_scalar ELSE One,
          vol_scalar        |-> IF branch THEN vol_scalar ELSE One,
          weights           |-> Append(st.weights, w),
          turnover          |-> Append(st.turnover, turnover),
          period_return     |-> period_return,
          portfolio_value   |-> Append(st.portfolio_value, value1),
          portfolio_returns |-> Append(st.portfolio_returns, period_return),
          carried           |-> st.prev_weights,
          prev_weights      |-> prev_weights ]

EagerOverlayIter(st, c, transaction_cost, date, i, prices, signals) ==
    LET dd_scalar == IF i > 1 /\ QLt(CurrentDrawdown(Slice(st.portfolio_value, 0, i)), Zero)
                     THEN QMin(c.dd_scale_1, DdScalar(c, st.portfolio_value, i))
                     ELSE One
    IN  OverlayAccount(st, c.rebalance_frequency, transaction_cost, date, i, prices,
                       RowScale(TargetWeights(SignalsShifted(signals, i)), dd_scalar),
                       dd_scalar, One)
OverlayIter(st, c, transaction_cost, date, i, prices, signals) ==
    LET dd_scalar       == DdScalar(c, st.portfolio_value, i)
        vol_scalar      == VolScalar(c, st.portfolio_returns, i)
        combined_scalar == QMul(dd_scalar, vol_scalar)
        target_weights  == RowScale(TargetWeights(SignalsShifted(signals, i)),
                                    combined_scalar)
    IN  OverlayAccount(st, c.rebalance_frequency, transaction_cost, date, i, prices,
                       target_weights, dd_scalar, vol_scalar)

----------------------------------------------------------------------------
(* apply_beta_hedge_overlay: rolling beta, the hedge and one iteration     *)

BenchmarkCol == "SPY"

\* the added term of avg_beta + 1e-9, scaled to the model's number range
Eps == Q(1, EpsDen)

\* binary64 has 53 bits: from 2^24 on, half a unit in the last place of
\* avg_beta exceeds 1e-9 and avg_beta + 1e-9 rounds back to avg_beta
AbsorbFrom == 16777216

\* avg_beta + 1e-9
AddEps(avg_beta) ==
    IF avg_beta = NaN THEN NaN
    ELSE IF IAbs(avg_beta[1]) \div avg_beta[2] >= AbsorbFrom THEN avg_beta
    ELSE QAdd(avg_beta, Eps)

\* the column a of daily_returns over the python rows lo .. hi - 1 (all >= 1)
ReturnColumn(prices, a, lo, hi) ==
    [k \in 1..(hi - lo) |-> DailyReturns(prices, lo + k - 1)[a]]

\* rolling covariance (ddof = 1) of two equally long windows
Cov(x, y) ==
    LET n  == Len(x)
        mx == QDiv(SeqSum(x), <<n, 1>>)
        my == QDiv(SeqSum(y), <<n, 1>>)
        devs == [k \in 1..n |-> QMul(QSub(x[k], mx), QSub(y[k], my))]
    IN  IF n < 2 \/ mx = NaN \/ my = NaN THEN NaN
        ELSE QDiv(SeqSum(devs), <<n - 1, 1>>)

\* compute_beta(daily_returns, benchmark_returns, lookback).loc[index[i]] read
\* at row `row`: the window is the `lookback` returns ending at that row, and
\* is NaN while it reaches back to the NaN return of row 0
BetasAtRow(prices, lookback, row) ==
    IF row - lookback + 1 < 1 THEN Row(LAMBDA a : NaN)
    ELSE LET lo    == row - lookback + 1
             bench == ReturnColumn(prices, BenchmarkCol, lo, row + 1)
             bench_var == Var(bench)
         IN  IF bench_var # NaN /\ QLt(Zero, bench_var)
             THEN Row(LAMBDA a :
                      QDiv(Cov(ReturnColumn(prices, a, lo, row + 1), bench), bench_var))
             ELSE Row(LAMBDA a : NaN)

\* all_betas.loc[date]
CurrentBetas(prices, lookback, i) == BetasAtRow(prices, lookback, i)

\* adjusted.clip(lower = 0)
ClipLower0(w) == Row(LAMBDA a : QMax(w[a], Zero))

beta_hedge_weights(weights, betas, hedge_ratio) ==
    LET total_orig     == RowSum(weights)
        portfolio_beta == RowSum(RowMul(weights, betas))
        avg_beta       == QDiv(portfolio_beta, total_orig)
        adjusted == ClipLower0(Row(LAMBDA a :
            QMul(weights[a],
                 QSub(One, QMul(QDiv(betas[a], AddEps(avg_beta)), hedge_ratio)))))
        adjusted_sum   == RowSum(adjusted)
    IN  IF total_orig = Zero THEN weights
        ELSE IF QLe(portfolio_beta, Zero) THEN weights
        ELSE IF QLt(Zero, adjusted_sum)
             THEN RowScale(adjusted, QDiv(total_orig, adjusted_sum))
             ELSE adjusted

\* the beta-hedge block of the loop
HedgedTarget(c, current_betas, target_weights) ==
    IF QLt(Zero, c.hedge_ratio)
    THEN IF \A a \in Assets : current_betas[a] = NaN THEN target_weights
         ELSE beta_hedge_weights(
                  target_weights,
                  Row(LAMBDA a : IF current_betas[a] = NaN THEN One
                                    ELSE current_betas[a]),
                  c.hedge_ratio)
    ELSE target_weights

UnscaledHedgeIter(st, c, transaction_cost, date, i, prices, signals) ==
    LET raw == TargetWeights(SignalsShifted(signals, i))
    IN  OverlayAccount(st, c.rebalance_frequency, transaction_cost, date, i, prices,
                       HedgedTarget(c, CurrentBetas(prices, c.beta_lookback, i), raw),
                       DdScalar(c, st.portfolio_value, i),
                       VolScalar(c, st.portfolio_returns, i))
BetaHedgeIter(st, c, transaction_cost, date, i, prices, signals) ==
    LET dd_scalar       == DdScalar(c, st.portfolio_value, i)
        vol_scalar      == VolScalar(c, st.portfolio_returns, i)
        combined_scalar == QMul(dd_scalar, vol_scalar)
        scaled          == RowScale(TargetWeights(SignalsShifted(signals, i)),
                                    combined_scalar)
        current_betas   == CurrentBetas(prices, c.beta_lookback, i)
        \* the values of the rebalance block, in the order the block computes them
        blk == [ dd_scalar      |-> dd_scalar,
                 vol_scalar     |-> vol_scalar,
                 scaled         |-> scaled,
                 current_betas  |-> current_betas,
                 target_weights |-> HedgedTarget(c, current_betas, scaled) ]
    IN  OverlayAccount(st, c.rebalance_frequency, transaction_cost, date, i, prices,
                       blk.target_weights, blk.dd_scalar, blk.vol_scalar)

----------------------------------------------------------------------------
(* Inputs: price levels, signal rows, trading calendars, arguments *)

PriceLevels == {4, 5}
PriceRows   == [SPY : PriceLevels, TLT : PriceLevels]
TopRow      == Row(LAMBDA a : 5)
TwoRows     == {TopRow, Row(LAMBDA a : IF a = BenchmarkCol THEN 4 ELSE 5)}
SignalRows  == [SPY : {Zero, One}, TLT : {Zero, One}]

\* trading calendars: Monday to Friday, or every calendar day
IsTradingDay(calendar, d) == calendar = "everyday" \/ DayOfWeek(d) < 5

RECURSIVE NextTradingDay(_, _)
NextTradingDay(calendar, d) ==
    IF IsTradingDay(calendar, d + 1) THEN d + 1 ELSE NextTradingDay(calendar, d + 1)

\* the default overlay arguments of apply_risk_overlay / apply_beta_hedge_overlay
DefaultArgs ==
    [ rebalance_frequency |-> "M",
      dd_threshold_1   |-> Q(-1, 10),
      dd_threshold_2   |-> Q(-1, 5),
      dd_scale_1       |-> Q(1, 2),
      dd_scale_2       |-> Zero,
      vol_target       |-> None,
      vol_lookback     |-> 2,
      vol_max_leverage |-> Q(3, 2),
      hedge_ratio      |-> One,
      beta_lookback    |-> 2 ]

\* a run: the arguments, the trading calendar and first date of the price
\* table, its last row, the price and signal rows it draws from and the cost
\* rates called
Run(freq, calendar, start, vol_target, last, price_rows, costs) ==
    [ args       |-> [DefaultArgs EXCEPT !.rebalance_frequency = freq,
                                         !.vol_target = vol_target],
      calendar   |-> calendar,
      start      |-> start,
      last       |-> last,
      price_rows |-> price_rows,
      last_price_rows |-> price_rows,   \* the rows the last date draws from
      signal_rows |-> SignalRows,
      costs      |-> costs,
      perturbed  |-> "nothing" ]

LowCosts == {Zero, Q(1, 20)}

\* a longer run on flat prices, in or out of the first asset
WeeksRun(freq, calendar, start, last) ==
    [ Run(freq, calendar, start, None, last, {TopRow}, {Q(1, 20)})
        EXCEPT !.signal_rows = {ZeroRow, [SPY |-> One, TLT |-> Zero]} ]

\* daily, monthly and weekly runs around two month starts, one on a trading
\* day (2024-07-01) and one not (2024-06-01), the weekly run on business days
\* reaching into a third week; volatility targets are scaled to the coarse
\* price grid
Configs ==
    { Run("D", "business", 3, None, MaxDay - 1, PriceRows, LowCosts),
      Run("M", "business", 31, None, MaxDay - 1, PriceRows, LowCosts),
      Run("M", "business", 30, <<10, 1>>, MaxDay, TwoRows, {Zero}),
      Run("D", "business", 3, <<1, 1>>, MaxDay, TwoRows, {Zero}),
      Run("M", "business", 3, None, MaxDay - 1, TwoRows, {Q(1, 20)}),
      Run("M", "everyday", 3, None, MaxDay - 1, TwoRows, {Q(1, 20)}),
      WeeksRun("W", "business", 3, MaxDay + 3),
      Run("W", "everyday", 3, None, MaxDay - 1, TwoRows, {Q(1, 20)}) }

----------------------------------------------------------------------------
(* The state machine: the calls of a run read their tables row by row *)

Functions == {"calculate_strategy_returns", "apply_risk_overlay",
              "apply_beta_hedge_overlay"}

\* the loop state of a call before its first iteration
NewCall(id) ==
    IF id[1] = "calculate_strategy_returns" THEN EngineInit ELSE OverlayInit

\* iteration i of the loop of call id, its tables holding rows 0 .. i
Iterate(id, st, c, date, i, tbl) ==
    CASE id[1] = "calculate_strategy_returns" ->
             EngineIter(st, c.rebalance_frequency, id[3], date, i,
                        tbl.prices, tbl.signals)
      [] id[1] = "apply_risk_overlay" ->
             OverlayIter(st, c, id[3], date, i, tbl.prices, tbl.signals)
      [] OTHER ->
             BetaHedgeIter(st, c, id[3], date, i, tbl.prices, tbl.signals)

Day      == Len(dates) - 1
NextDate == NextTradingDay(cfg.calendar, dates[Len(dates)])

\* the rows a table may show next: in a run on one table the signal row of
\* the last date, which is never read (signals.shift(1)), is left at zero
NextRows(i) ==
    [ prices  : IF i = cfg.last THEN cfg.last_price_rows ELSE cfg.price_rows,
      signals : IF i = cfg.last /\ DOMAIN tables = {"A"} THEN {ZeroRow}
                ELSE cfg.signal_rows ]

\* the next row of every table of the run: table "B", when there is one, is
\* table "A" with other signal values, or with other prices, from row 1 on
RowChoices(i) ==
    IF DOMAIN tables = {"A"}
    THEN {[t \in {"A"} |-> row] : row \in NextRows(i)}
    ELSE {rows \in [{"A", "B"} -> NextRows(i)] :
             IF cfg.perturbed = "signals"
             THEN rows["B"].prices = rows["A"].prices
             ELSE rows["B"].signals = rows["A"].signals}

AppendRow(tbl, row) ==
    [ prices  |-> Append(tbl.prices, row.prices),
      signals |-> Append(tbl.signals, row.signals) ]

StartCalls(ids) ==
    /\ dates = <<cfg.start>>
    /\ calls = [id \in ids |-> NewCall(id)]
    /\ series = <<>>
    /\ scal = <<>>

\* one run: the three simulators on one table, at each cost rate of the run
Init ==
    /\ cfg \in Configs
    /\ \E s0 \in cfg.signal_rows :
          tables = [t \in {"A"} |-> [prices |-> <<TopRow>>, signals |-> <<s0>>]]
    /\ StartCalls(Functions \X {"A"} \X cfg.costs)

\* dd_threshold_1 = dd_threshold_2 = -0.99: drawdown control effectively
\* disabled
DisabledThreshold == Q(-99, 100)

\* the arguments of a call: those of the run, with the drawdown thresholds
\* of a call marked "no_dd" moved to -0.99
ArgsOf(id) ==
    IF Len(id) = 4 /\ id[4] = "no_dd"
    THEN [cfg.args EXCEPT !.dd_threshold_1 = DisabledThreshold,
                          !.dd_threshold_2 = DisabledThreshold]
    ELSE cfg.args

\* every call runs iteration Day + 1 on the next row of its table
SimulateDay(rows) ==
    /\ Day < cfg.last
    /\ tables' = [t \in DOMAIN tables |-> AppendRow(tables[t], rows[t])]
    /\ calls' = [id \in DOMAIN calls |->
                    Iterate(id, calls[id], ArgsOf(id), NextDate, Day + 1, tables'[id[2]])]
    /\ dates' = Append(dates, NextDate)
    /\ UNCHANGED <<cfg, series, scal>>

\* the branch `if is_rebalance or i == 1` of the loops
RebalanceDay ==
    /\ calls # <<>>
    /\ RebalanceBranch(cfg.args.rebalance_frequency, NextDate, Day + 1)
    /\ \E rows \in RowChoices(Day + 1) : SimulateDay(rows)

\* the else branch: weights are carried
CarryDay ==
    /\ calls # <<>>
    /\ ~RebalanceBranch(cfg.args.rebalance_frequency, NextDate, Day + 1)
    /\ \E rows \in RowChoices(Day + 1) : SimulateDay(rows)

\* the value series of every finished call is handed to drawdown_scalar
CallDrawdownScalar ==
    /\ calls # <<>>
    /\ Day = cfg.last
    /\ scal = <<>>
    /\ scal' = [id \in DOMAIN calls |->
                  drawdown_scalar(calls[id].portfolio_value,
                                  cfg.args.dd_threshold_1, cfg.args.dd_threshold_2,
                                  cfg.args.dd_scale_1, cfg.args.dd_scale_2)]
    /\ UNCHANGED <<cfg, dates, calls, tables, series>>

Next == RebalanceDay \/ CarryDay \/ CallDrawdownScalar

Spec == Init /\ [][Next]_vars

----------------------------------------------------------------------------
(* Runs whose last date, outside the rebalance calendar, may show a price  *)
(* of zero: the return of a holding that went to zero is -1                *)

CollapseRows == [SPY : {0, 5}, TLT : {0, 5}]

DriftConfigs ==
    { [ Run("M", "business", 31, None, MaxDay - 1, TwoRows, {Zero})
          EXCEPT !.last_price_rows = CollapseRows ] }

InitDrift ==
    /\ cfg \in DriftConfigs
    /\ \E s0 \in cfg.signal_rows :
          tables = [t \in {"A"} |-> [prices |-> <<TopRow>>, signals |-> <<s0>>]]
    /\ StartCalls(Functions \X {"A"} \X cfg.costs)

SpecDrift == InitDrift /\ [][Next]_vars

----------------------------------------------------------------------------
(* Calls of calculate_strategy_returns on one table at several cost rates *)

CostRates == {Zero, Q(1, 4), Q(1, 2), Q(3, 4), One}

CostConfigs ==
    { Run("D", "business", 3, None, MaxDay - 1, PriceRows, CostRates),
      Run("M", "business", 31, None, MaxDay - 1, PriceRows, CostRates) }

InitCost ==
    /\ cfg \in CostConfigs
    /\ \E s0 \in cfg.signal_rows :
          tables = [t \in {"A"} |-> [prices |-> <<TopRow>>, signals |-> <<s0>>]]
    /\ StartCalls({"calculate_strategy_returns"} \X {"A"} \X cfg.costs)

SpecCost == InitCost /\ [][Next]_vars

----------------------------------------------------------------------------
(* Calls of apply_risk_overlay on one table at several cost rates, with    *)
(* the default drawdown control                                            *)

OverlayCostRates == {Zero, Q(1, 20), Q(1, 10)}

OverlayCostConfigs ==
    { Run("D", "business", 3, None, MaxDay - 1, PriceRows, OverlayCostRates),
      Run("M", "business", 31, None, MaxDay - 1, PriceRows, OverlayCostRates) }

InitOverlayCost ==
    /\ cfg \in OverlayCostConfigs
    /\ \E s0 \in cfg.signal_rows :
          tables = [t \in {"A"} |-> [prices |-> <<TopRow>>, signals |-> <<s0>>]]
    /\ StartCalls({"apply_risk_overlay"} \X {"A"} \X cfg.costs)

SpecOverlayCost == InitOverlayCost /\ [][Next]_vars

----------------------------------------------------------------------------
(* Calls of apply_risk_overlay on one table at no cost, with the default   *)
(* drawdown control and with drawdown control disabled                     *)

DdModes == {"with_dd", "no_dd"}

DdConfigs ==
    { Run("D", "business", 3, None, MaxDay - 1, PriceRows, {Zero}),
      Run("M", "business", 31, None, MaxDay - 1, PriceRows, {Zero}) }

InitDd ==
    /\ cfg \in DdConfigs
    /\ \E s0 \in cfg.signal_rows :
          tables = [t \in {"A"} |-> [prices |-> <<TopRow>>, signals |-> <<s0>>]]
    /\ StartCalls({"apply_risk_overlay"} \X {"A"} \X cfg.costs \X DdModes)

SpecDd == InitDd /\ [][Next]_vars

----------------------------------------------------------------------------
(* Calls on two tables that agree on row 0 and differ, from row 1 on, in   *)
(* their signal values only or in their prices only                        *)

PairConfigs(perturbed) ==
    { [Run("D", "business", 3, None, MaxDay - 2, TwoRows, {Zero})
          EXCEPT !.perturbed = perturbed] }
    \cup
    { [Run("M", "business", 30, None, MaxDay - 2, TwoRows, {Q(1, 20)})
          EXCEPT !.perturbed = perturbed] }

InitPair(perturbed, fns) ==
    /\ cfg \in PairConfigs(perturbed)
    /\ \E s0 \in cfg.signal_rows :
          tables = [t \in {"A", "B"} |-> [prices |-> <<TopRow>>, signals |-> <<s0>>]]
    /\ StartCalls(fns \X {"A", "B"} \X cfg.costs)

InitSignals ==
    InitPair("signals", {"calculate_strategy_returns", "apply_risk_overlay"})

InitPrices ==
    InitPair("prices", {"apply_risk_overlay", "apply_beta_hedge_overlay"})

SpecSignals == InitSignals /\ [][Next]_vars

SpecPrices == InitPrices /\ [][Next]_vars

----------------------------------------------------------------------------
(* Calls of volatility_scalar on a series of daily returns that grows *)

MaxMoves == 2

ReturnLevels == {Zero, Q(1, 10), Q(-1, 10)}

ScalarArgs ==
    { [target_vol |-> Q(1, 10), lookback |-> lb, max_leverage |-> Q(3, 2),
       min_scalar |-> Q(1, 10)] : lb \in {MinPeriods, DefaultLookback} }

\* the number of non-zero returns of a series
Moves(returns) == Cardinality({k \in 1..Len(returns) : returns[k] # Zero})

InitScalar ==
    /\ cfg \in ScalarArgs
    /\ dates = <<>>
    /\ calls = <<>>
    /\ tables = <<>>
    /\ series = <<>>
    /\ scal = <<>>

\* one more daily return, at most MaxMoves of them non-zero
ObserveReturn ==
    /\ calls = <<>>
    /\ scal = <<>>
    /\ Len(series) < MaxSeries
    /\ \E r \in ReturnLevels :
          /\ r # Zero => Moves(series) < MaxMoves
          /\ series' = Append(series, r)
    /\ UNCHANGED <<cfg, dates, calls, tables, scal>>

CallVolatilityScalar ==
    /\ calls = <<>>
    /\ scal = <<>>
    /\ series # <<>>
    /\ scal' = volatility_scalar(series, cfg.target_vol, cfg.lookback,
                                 cfg.max_leverage, cfg.min_scalar)
    /\ UNCHANGED <<cfg, dates, calls, tables, series>>

NextScalar == ObserveReturn \/ CallVolatilityScalar

SpecScalar == InitScalar /\ [][NextScalar]_vars

\* calls whose bounds leave 1.0 inside or outside [min_scalar, max_leverage]
BoundsArgs ==
    { [target_vol |-> tv, lookback |-> MinPeriods, max_leverage |-> b[2],
       min_scalar |-> b[1]] :
         tv \in {Zero, Q(1, 10)},
         b \in { <<Q(1, 10), Q(3, 2)>>, <<Q(1, 10), Q(1, 2)>>,
                 <<Q(6, 5), Q(3, 2)>>, <<Q(1, 2), Q(1, 2)>> } }

InitBounds ==
    /\ cfg \in BoundsArgs
    /\ dates = <<>>
    /\ calls = <<>>
    /\ tables = <<>>
    /\ series = <<>>
    /\ scal = <<>>

SpecBounds == InitBounds /\ [][NextScalar]_vars

----------------------------------------------------------------------------
(* Calls of beta_hedge_weights on one weight row, one beta row and one     *)
(* hedge ratio                                                             *)

WeightLevels == {Zero, Q(1, 2), One}
BetaLevels   == {Q(-1, 1), Zero, Q(1, 2), One, Q(2, 1)}
HedgeRatios  == {Zero, Q(1, 2), One}

\* betas of ordinary size per column, or one large beta on every column
BetaRows == [SPY : BetaLevels, TLT : BetaLevels] \cup {Row(LAMBDA a : <<AbsorbFrom, 1>>)}

InitHedge ==
    /\ cfg \in [ weights     : [SPY : WeightLevels, TLT : WeightLevels],
                 betas       : BetaRows,
                 hedge_ratio : HedgeRatios ]
    /\ dates = <<>>
    /\ calls = <<>>
    /\ tables = <<>>
    /\ series = <<>>
    /\ scal = <<>>

CallBetaHedgeWeights ==
    /\ scal = <<>>
    /\ scal' = beta_hedge_weights(cfg.weights, cfg.betas, cfg.hedge_ratio)
    /\ UNCHANGED <<cfg, dates, calls, tables, series>>

NextHedge == CallBetaHedgeWeights

SpecHedge == InitHedge /\ [][NextHedge]_vars

----------------------------------------------------------------------------
(* The statements of the overlay simulators before their loops: a call     *)
(* either raises or starts its loop                                        *)

\* raise ValueError(message)
ValueError(message) == [raised |-> "ValueError", message |-> message]

\* the call reached its loop
Started == [raised |-> "nothing", message |-> <<>>]

\* apply_risk_overlay: nothing before the loop inspects an argument
EnterOverlay(c, columns) == Started

\* apply_beta_hedge_overlay: the benchmark column is looked up first;
\* compute_beta then opens rolling(window = beta_lookback), which pandas
\* refuses for a negative window
EnterHedgeUnchecked(c, columns) == Started
EnterHedge(c, columns) ==
    IF c.benchmark_col \notin columns
    THEN ValueError(<<"benchmark_col", c.benchmark_col,
                      "not found in prices columns", columns>>)
    ELSE IF c.beta_lookback < 0
    THEN ValueError(<<"window must be an integer 0 or greater">>)
    ELSE Started

Enter(id, c, columns) ==
    IF id[1] = "apply_beta_hedge_overlay" THEN EnterHedge(c, columns)
    ELSE EnterOverlay(c, columns)

BenchmarkCols == {BenchmarkCol, "QQQ"}
Lookbacks     == {-1, 0, 2}

\* a monthly run on both columns held, with a volatility target
EntryRun(benchmark_col, vol_lookback, beta_lookback) ==
    LET r == Run("M", "business", 31, <<1, 1>>, MaxDay - 1, TwoRows, {Zero})
    IN  [ r EXCEPT !.signal_rows = {Row(LAMBDA a : One)},
                   !.args = [benchmark_col |-> benchmark_col] @@
                            [@ EXCEPT !.vol_lookback = vol_lookback,
                                      !.beta_lookback = beta_lookback] ]

EntryConfigs ==
    { EntryRun(b, v, l) : b \in BenchmarkCols, v \in Lookbacks, l \in Lookbacks }

EntryCalls == {"apply_risk_overlay", "apply_beta_hedge_overlay"} \X {"A"} \X cfg.costs

InitEntry ==
    /\ cfg \in EntryConfigs
    /\ \E s0 \in cfg.signal_rows :
          tables = [t \in {"A"} |-> [prices |-> <<TopRow>>, signals |-> <<s0>>]]
    /\ dates = <<cfg.start>>
    /\ calls = <<>>
    /\ series = <<>>
    /\ scal = <<>>

\* both overlay simulators are called: scal keeps how each call left its
\* first statements, calls the loop state of those that started
CallSimulators ==
    /\ calls = <<>>
    /\ scal = <<>>
    /\ scal' = [id \in EntryCalls |-> Enter(id, cfg.args, Assets)]
    /\ calls' = [id \in {x \in EntryCalls : scal'[x] = Started} |-> NewCall(id)]
    /\ UNCHANGED <<cfg, dates, tables, series>>

NextEntry == CallSimulators \/ RebalanceDay \/ CarryDay

SpecEntry == InitEntry /\ [][NextEntry]_vars

----------------------------------------------------------------------------
(* experiment_07_stability: calendar dates <<year, month, day>>, the       *)
(* price index and the windows of rolling_walk_forward                     *)

IsLeap(y) == y % 4 = 0 /\ (y % 100 # 0 \/ y % 400 = 0)

\* date + pd.DateOffset(years = n): the same month and day n years on, the
\* day clamped to the end of the month (Feb 29 becomes Feb 28)
AddYears(date, n) ==
    <<date[1] + n, date[2],
      IF date[2] = 2 /\ date[3] = 29 /\ ~IsLeap(date[1] + n) THEN 28 ELSE date[3]>>

\* the day number of a date (1970-01-01 is day 0, a Thursday)
Ordinal(date) ==
    LET y   == IF date[2] <= 2 THEN date[1] - 1 ELSE date[1]
        era == y \div 400
        yoe == y - era * 400
        mp  == IF date[2] > 2 THEN date[2] - 3 ELSE date[2] + 9
        doy == (153 * mp + 2) \div 5 + date[3] - 1
        doe == yoe * 365 + yoe \div 4 - yoe \div 100 + doy
    IN  era * 146097 + doe - 719468

\* the number of Monday-to-Friday days among the days 0 .. n - 1
WeekdaysBefore(n) == 5 * (n \div 7) + <<0, 1, 2, 2, 2, 3, 4>>[(n % 7) + 1]

\* the number of Monday-to-Friday days d with lo <= d < hi
Weekdays(lo, hi) == IF hi <= lo THEN 0 ELSE WeekdaysBefore(hi) - WeekdaysBefore(lo)

IMax(a, b) == IF a >= b THEN a ELSE b
IMin(a, b) == IF a <= b THEN a ELSE b

\* a price index: every weekday from first to last, except those of a gap
\* [gap[1], gap[2]) without data; len(prices.loc[(index >= lo) & (index < hi)])
RowsIn(index, lo, hi) ==
    LET a == IMax(Ordinal(lo), Ordinal(index.first))
        b == IMin(Ordinal(hi), Ordinal(index.last) + 1)
    IN  Weekdays(a, b)
        - Weekdays(IMax(a, Ordinal(index.gap[1])), IMin(b, Ordinal(index.gap[2])))

MinTrainRows == 252
MinValRows   == 126

\* the sentinel that ranks an undefined Sharpe
Sentinel == <<-999, 1>>

\* the reference span of the experiment
RefSpan == 126

\* the ranges of the window that starts at window_start
DetachedWindowAt(window_start, train_years, val_years) ==
    LET train_end == AddYears(window_start, train_years)
    IN  [ train_start |-> window_start,
          train_end   |-> train_end,
          val_start   |-> AddYears(train_end, 1),
          val_end     |-> AddYears(train_end, val_years + 1) ]
WindowAt(window_start, train_years, val_years) ==
    LET train_end == AddYears(window_start, train_years)
    IN  [ train_start |-> window_start,
          train_end   |-> train_end,
          val_start   |-> train_end,
          val_end     |-> AddYears(train_end, val_years) ]

\* if val_end > end_date: break
PastData(w, index) == Ordinal(w.val_end) > Ordinal(index.last)

\* if len(train_prices) < 252 or len(val_prices) < 126
InsufficientData(w, index) ==
    \/ RowsIn(index, w.train_start, w.train_end) < MinTrainRows
    \/ RowsIn(index, w.val_start, w.val_end) < MinValRows

\* the range of dates handed to the training simulations
TrainAndValRange(w) == <<w.train_start, w.val_end>>
TrainRange(w) == <<w.train_start, w.train_end>>

ValRange(w) == <<w.val_start, w.val_end>>

\* a simulation raised
Raised == <<"Exception">>

\* try: ... sharpe_ratio  except Exception: np.nan
Caught(outcome) == IF outcome = Raised THEN NaN ELSE outcome

\* key = lambda k: sharpe if not np.isnan(sharpe) else -999
Key(sharpe) == IF sharpe = NaN THEN Sentinel ELSE sharpe

\* max(train_sharpes, key = ...): the first span, in the order of spans,
\* whose key no other key exceeds
MaxSpan(spans, train_sharpes) ==
    spans[CHOOSE i \in 1..Len(spans) :
            /\ \A j \in 1..Len(spans) : QLe(Key(train_sharpes[spans[j]]), Key(train_sharpes[spans[i]]))
            /\ \A j \in 1..(i - 1) : QLt(Key(train_sharpes[spans[j]]), Key(train_sharpes[spans[i]]))]

\* sorted(..., key = ..., reverse = True), then the position of 126, or
\* len(spans) when 126 is no candidate; equal keys keep the order of spans
Rank126(spans, train_sharpes) ==
    IF \A i \in 1..Len(spans) : spans[i] # RefSpan THEN Len(spans)
    ELSE LET p == CHOOSE i \in 1..Len(spans) : spans[i] = RefSpan
         IN  1 + Cardinality({j \in 1..Len(spans) :
                   \/ QLt(Key(train_sharpes[RefSpan]), Key(train_sharpes[spans[j]]))
                   \/ j < p /\ Key(train_sharpes[spans[j]]) = Key(train_sharpes[RefSpan])})

\* float(v) if not np.isnan(v) else None
OrNone(v) == IF v = NaN THEN None ELSE v

SpanSet(spans) == {spans[i] : i \in 1..Len(spans)}

\* the entry of one processed window: sims gives, for the training and the
\* validation range, what the simulation of each span returned or raised
WindowResult(window_id, w, spans, sims) ==
    LET train_sharpes   == [k \in SpanSet(spans) |-> Caught(sims.train[k])]
        best_span       == MaxSpan(spans, train_sharpes)
        val_all_sharpes == [k \in SpanSet(spans) |-> Caught(sims.val[k])]
    IN  [ window_id         |-> window_id,
          train_start       |-> w.train_start,
          train_end         |-> w.train_end,
          val_start         |-> w.val_start,
          val_end           |-> w.val_end,
          train_sharpes     |-> [k \in SpanSet(spans) |-> OrNone(train_sharpes[k])],
          best_span_train   |-> best_span,
          best_sharpe_train |-> OrNone(train_sharpes[best_span]),
          rank_126_train    |-> Rank126(spans, train_sharpes),
          val_sharpes       |-> [k \in SpanSet(spans) |-> OrNone(val_all_sharpes[k])],
          val_best_span     |-> [sharpe |-> Caught(sims.val[best_span])],
          val_126           |-> [sharpe |-> Caught(sims.val[RefSpan])] ]

\* does a change of the prices on the dates [perturbed[1], perturbed[2])
\* change a row of prices.loc[(index >= range[1]) & (index < range[2])] ?
Touches(index, perturbed, range) ==
    RowsIn(index,
           IF Ordinal(perturbed[1]) > Ordinal(range[1]) THEN perturbed[1] ELSE range[1],
           IF Ordinal(perturbed[2]) < Ordinal(range[2]) THEN perturbed[2] ELSE range[2]) > 0

\* what the simulations of one window return or raise, per price table: a
\* simulation is a function of the rows it is handed, so table "B" repeats
\* table "A" on every range its changed prices do not touch
SimChoices(c, w) ==
    LET keys == SpanSet(c.spans) \cup {RefSpan}
    IN  { sims \in [ c.runs -> [ train : [SpanSet(c.spans) -> c.train_outcomes],
                                 val   : [keys -> c.val_outcomes] ] ] :
            "B" \in c.runs =>
              /\ Touches(c.index, c.perturbed, TrainRange(w))
                   \/ sims["B"].train = sims["A"].train
              /\ Touches(c.index, c.perturbed, ValRange(w))
                   \/ sims["B"].val = sims["A"].val }

Spans == <<63, RefSpan, 252>>

NoGap(first) == <<first, first>>

\* a call of rolling_walk_forward
Walk(first, last, gap, train_years, val_years, step_years) ==
    [ index       |-> [first |-> first, last |-> last, gap |-> gap],
      spans       |-> Spans,
      train_years |-> train_years,
      val_years   |-> val_years,
      step_years  |-> step_years,
      runs        |-> {"A"},
      perturbed   |-> NoGap(first),
      train_outcomes |-> {One},
      val_outcomes   |-> {One} ]

\* indexes that start on a leap day or not, with and without a year in
\* which data is missing
WalkConfigs ==
    { Walk(first, last, gap, t, v, s) :
        first \in {<<2016, 2, 29>>, <<2015, 1, 1>>},
        last  \in {<<2021, 12, 31>>, <<2023, 3, 1>>},
        gap   \in {<<<<2015, 1, 1>>, <<2015, 1, 1>>>>, <<<<2018, 6, 1>>, <<2019, 3, 1>>>>},
        t \in {1, 3}, v \in {1, 2}, s \in {1, 2} }

\* rolling_walk_forward before its loop; calls lists the windows the loop
\* has generated, tables what the simulations returned
InitWalkWith(configs) ==
    /\ cfg \in configs
    /\ scal = [window_start |-> cfg.index.first, window_id |-> 0, returned |-> FALSE]
    /\ series = [t \in cfg.runs |-> <<>>]
    /\ calls = <<>>
    /\ tables = <<>>
    /\ dates = <<>>

InitWalk == InitWalkWith(WalkConfigs)

CurrentWindow == WindowAt(scal.window_start, cfg.train_years, cfg.val_years)

\* the most windows a call may generate before the model stops following it
MaxWindowId == 12

\* window_start += pd.DateOffset(years = step_years), after window_id += 1
SlideNowhere(processed) ==
    /\ scal' = [scal EXCEPT !.window_id = @ + 1]
    /\ calls' = Append(calls, [processed |-> processed] @@ CurrentWindow)
    /\ UNCHANGED <<cfg, dates>>
Slide(processed) ==
    /\ scal' = [scal EXCEPT !.window_id = @ + 1,
                            !.window_start = AddYears(@, cfg.step_years)]
    /\ calls' = Append(calls, [processed |-> processed] @@ CurrentWindow)
    /\ UNCHANGED <<cfg, dates>>

\* if val_end > end_date: break; return results
WalkBreak ==
    /\ ~scal.returned
    /\ PastData(CurrentWindow, cfg.index)
    /\ scal' = [scal EXCEPT !.returned = TRUE]
    /\ UNCHANGED <<cfg, dates, calls, tables, series>>

\* the branch that prints "Skipping: insufficient data" and continues
WalkSkip ==
    /\ ~scal.returned
    /\ scal.window_id < MaxWindowId
    /\ ~PastData(CurrentWindow, cfg.index)
    /\ InsufficientData(CurrentWindow, cfg.index)
    /\ Slide(FALSE)
    /\ UNCHANGED <<tables, series>>

\* the simulations of one window and results.append(window_result)
WalkProcess ==
    /\ ~scal.returned
    /\ scal.window_id < MaxWindowId
    /\ ~PastData(CurrentWindow, cfg.index)
    /\ ~InsufficientData(CurrentWindow, cfg.index)
    /\ \E sims \in SimChoices(cfg, CurrentWindow) :
          /\ tables' = Append(tables, sims)
          /\ series' = [t \in cfg.runs |->
                          Append(series[t],
                                 WindowResult(scal.window_id + 1, CurrentWindow,
                                              cfg.spans, sims[t]))]
    /\ Slide(TRUE)

NextWalk == WalkBreak \/ WalkSkip \/ WalkProcess

SpecWalk == InitWalk /\ [][NextWalk]_vars

\* the loop is the only thread of the call: its next iteration always runs
FairWalk == InitWalk /\ [][NextWalk]_vars /\ WF_vars(NextWalk)

\* calls on two price tables that differ in one month, which lies in the
\* validation range or in the training range of the one window the index
\* has the rows for; a simulation returns a Sharpe ratio or raises
SelectConfigs ==
    { [ Walk(index[1], <<2017, 6, 30>>, index[2], 1, 1, 1)
          EXCEPT !.runs = {"A", "B"},
                 !.perturbed = month,
                 !.train_outcomes = {Q(-1, 1), One, Raised},
                 !.val_outcomes = {One, Raised} ] :
        index \in {<<<<2015, 1, 1>>, NoGap(<<2015, 1, 1>>)>>,
                    <<<<2014, 1, 1>>, <<<<2014, 3, 1>>, <<2014, 12, 1>>>>>>},
        month \in {<<<<2016, 3, 1>>, <<2016, 4, 1>>>>, <<<<2015, 3, 1>>, <<2015, 4, 1>>>>} }

InitSelect == InitWalkWith(SelectConfigs)

SpecSelect == InitSelect /\ [][NextWalk]_vars

----------------------------------------------------------------------------
(* experiment_05_costs: the cost sweeps run_cost_scenarios and             *)
(* find_breakeven_cost, one simulation per scenario or cost level          *)

\* COST_SCENARIOS in the order of the dict, then the dynamic cost scenario
ScenarioNames == <<"zero", "low", "medium", "high", "dynamic">>

\* n_steps of find_breakeven_cost, and search_range[1] in basis points
GridSteps  == 3
MaxCostBps == 100

\* np.linspace(search_range[0], search_range[1], n_steps) * 10000
CostGrid == [i \in 1..GridSteps |-> Q(MaxCostBps * (i - 1), GridSteps - 1)]

\* the Sharpe ratios a simulation of a sweep returns
SweepSharpes == {Zero, One}

SweepConfigs ==
    { [harness |-> "run_cost_scenarios", tasks |-> ScenarioNames, min_sharpe |-> None] }
    \cup { [harness |-> "find_breakeven_cost", tasks |-> CostGrid, min_sharpe |-> m] :
              m \in {Zero, Q(1, 2)} }

\* a sweep before its loop: series holds the entries written so far, scal
\* how the call ended and what it returned
InitSweep ==
    /\ cfg \in SweepConfigs
    /\ series = <<>>
    /\ scal = [status |-> "running", returned |-> None]
    /\ calls = <<>>
    /\ tables = <<>>
    /\ dates = <<>>

\* the cost level where the Sharpe ratio crosses min_sharpe
Breakeven(cost_curve, min_sharpe) ==
    LET above == {i \in 1..Len(cost_curve) : QLe(min_sharpe, cost_curve[i].sharpe)}
    IN  IF above = {} THEN Zero
        ELSE IF Cardinality(above) = Len(cost_curve) THEN <<MaxCostBps, 1>>
        ELSE SeqMax([i \in 1..Len(cost_curve) |->
                        IF i \in above THEN cost_curve[i].task ELSE Zero])

\* the simulation of the next scenario or cost level returns and its entry
\* is written
SweepTask ==
    /\ scal.status = "running"
    /\ Len(series) < Len(cfg.tasks)
    /\ \E sharpe \in SweepSharpes :
          series' = Append(series, [task |-> cfg.tasks[Len(series) + 1], sharpe |-> sharpe])
    /\ UNCHANGED <<cfg, dates, calls, tables, scal>>

\* the simulation raises: neither sweep has a try block, the exception
\* leaves the function and nothing is returned
SweepRaise ==
    /\ scal.status = "running"
    /\ Len(series) < Len(cfg.tasks)
    /\ scal' = [status |-> "raised", returned |-> None]
    /\ UNCHANGED <<cfg, dates, calls, tables, series>>

\* return results / return the break-even cost and the cost curve
SweepReturn ==
    /\ scal.status = "running"
    /\ Len(series) = Len(cfg.tasks)
    /\ scal' = [status |-> "returned",
                returned |-> IF cfg.harness = "run_cost_scenarios" THEN series
                             ELSE [breakeven_cost_bps |-> Breakeven(series, cfg.min_sharpe),
                                   cost_curve |-> series]]
    /\ UNCHANGED <<cfg, dates, calls, tables, series>>

NextSweep == SweepTask \/ SweepRaise \/ SweepReturn

SpecSweep == InitSweep /\ [][NextSweep]_vars

----------------------------------------------------------------------------
(* experiment_07_stability: compute_stability_metrics and                  *)
(* check_failure_criteria                                                  *)

\* FAILURE_CRITERIA
max_optimal_ratio     == Q(2, 1)
min_top3_pct          == Q(1, 2)
max_sharpe_variance   == Q(1, 2)
min_any_window_sharpe == Zero

SeqMinRange(s, lo, hi) ==
    LET m == SeqMaxRange([k \in 1..Len(s) |-> QNeg(s[k])], lo, hi) IN QNeg(m)

\* np.var: the mean squared deviation from the mean (ddof = 0)
NpVar(s) ==
    LET mean == QDiv(SeqSum(s), <<Len(s), 1>>)
    IN  QDiv(SumSqDev(s, mean), <<Len(s), 1>>)

\* the metrics that check_failure_criteria reads, and the mean; the mode, the
\* standard deviation and the train/validation consistency are reported only
compute_stability_metrics(windows) ==
    IF windows = <<>> THEN [error |-> "No valid windows"]
    ELSE
    LET best_spans      == [k \in 1..Len(windows) |-> <<windows[k].best_span_train, 1>>]
        defined         == SelectSeq(windows, LAMBDA w : w.val_126.sharpe \notin {None, NaN})
        val_sharpes_126 == [k \in 1..Len(defined) |-> defined[k].val_126.sharpe]
        top3_count      == Cardinality({k \in 1..Len(windows) : windows[k].rank_126_train <= 3})
        optimal_min     == SeqMinRange(best_spans, 1, Len(best_spans))
        optimal_max     == SeqMax(best_spans)
    IN  [ n_windows           |-> Len(windows),
          optimal_spans       |-> best_spans,
          optimal_span_min    |-> optimal_min,
          optimal_span_max    |-> optimal_max,
          optimal_span_ratio  |-> IF QLt(Zero, optimal_min) THEN QDiv(optimal_max, optimal_min)
                                  ELSE Inf,
          rank_126_top3_pct   |-> Q(top3_count, Len(windows)),
          val_sharpe_126_mean |-> IF Len(val_sharpes_126) > 0
                                  THEN QDiv(SeqSum(val_sharpes_126), <<Len(val_sharpes_126), 1>>)
                                  ELSE NaN,
          val_sharpe_126_var  |-> IF Len(val_sharpes_126) > 1 THEN NpVar(val_sharpes_126)
                                  ELSE Zero,
          val_sharpe_126_min  |-> IF Len(val_sharpes_126) > 0
                                  THEN SeqMinRange(val_sharpes_126, 1, Len(val_sharpes_126))
                                  ELSE NaN ]

\* stability.get(key, default)
Get(stability, key, default) ==
    IF key \in DOMAIN stability THEN stability[key] ELSE default

\* a > b for floats that may be +inf
Exceeds(a, b) == a = Inf \/ (a # NaN /\ b # NaN /\ a # NegInf /\ QLt(b, a))

check_failure_criteria(stability) ==
    LET ratio      == Get(stability, "optimal_span_ratio", Inf)
        top3_pct   == Get(stability, "rank_126_top3_pct", Zero)
        sharpe_var == Get(stability, "val_sharpe_126_var", Inf)
        min_sharpe == Get(stability, "val_sharpe_126_min", Sentinel)
        failures   ==
            (IF Exceeds(ratio, max_optimal_ratio)
             THEN <<[criterion |-> "max_optimal_ratio", value |-> ratio]>> ELSE <<>>)
            \o (IF QLt(top3_pct, min_top3_pct)
                THEN <<[criterion |-> "min_top3_pct", value |-> top3_pct]>> ELSE <<>>)
            \o (IF Exceeds(sharpe_var, max_sharpe_variance)
                THEN <<[criterion |-> "max_sharpe_variance", value |-> sharpe_var]>> ELSE <<>>)
            \o (IF min_sharpe # NaN /\ QLt(min_sharpe, min_any_window_sharpe)
                THEN <<[criterion |-> "min_any_window_sharpe", value |-> min_sharpe]>> ELSE <<>>)
    IN  \* the first reason is formatted with stability['optimal_span_min']
        IF Exceeds(ratio, max_optimal_ratio) /\ "optimal_span_min" \notin DOMAIN stability
        THEN [raised |-> "KeyError", key |-> "optimal_span_min"]
        ELSE [ raised   |-> "nothing",
               passed   |-> Len(failures) = 0,
               failures |-> failures,
               metrics  |-> [ optimal_span_ratio |-> ratio,
                              top3_pct           |-> top3_pct,
                              sharpe_variance    |-> sharpe_var,
                              min_window_sharpe  |-> min_sharpe ] ]

\* the bound on the number of windows handed to compute_stability_metrics
MaxWindows == 2

\* the fields of a window entry that the two functions read
WindowEntries ==
    [ best_span_train : SpanSet(Spans),
      rank_126_train  : {1, 4},
      val_126         : [sharpe : {Q(-1, 1), Zero, One, None}] ]

RECURSIVE SeqsUpTo(_, _)
SeqsUpTo(S, n) ==
    IF n = 0 THEN {<<>>}
    ELSE LET shorter == SeqsUpTo(S, n - 1)
         IN  shorter \cup {Append(q, x) : q \in {r \in shorter : Len(r) = n - 1}, x \in S}

\* the list of windows; series is the stability dict, scal the verdict
InitVerdict ==
    /\ cfg \in [windows : SeqsUpTo(WindowEntries, MaxWindows)]
    /\ series = <<>>
    /\ scal = <<>>
    /\ calls = <<>>
    /\ tables = <<>>
    /\ dates = <<>>

CallComputeStabilityMetrics ==
    /\ series = <<>>
    /\ series' = compute_stability_metrics(cfg.windows)
    /\ UNCHANGED <<cfg, dates, calls, tables, scal>>

CallCheckFailureCriteria ==
    /\ series # <<>>
    /\ scal = <<>>
    /\ scal' = check_failure_criteria(series)
    /\ UNCHANGED <<cfg, dates, calls, tables, series>>

NextVerdict == CallComputeStabilityMetrics \/ CallCheckFailureCriteria

SpecVerdict == InitVerdict /\ [][NextVerdict]_vars

----------------------------------------------------------------------------
(* engine.py: calculate_var and calculate_cvar on a sample of returns      *)

\* np.sort
Sorted(s) ==
    LET Pos(i) == 1 + Cardinality({j \in 1..Len(s) : QLt(s[j], s[i])})
                    + Cardinality({j \in 1..(i - 1) : s[j] = s[i]})
    IN  [k \in 1..Len(s) |-> s[CHOOSE i \in 1..Len(s) : Pos(i) = k]]

\* the floats of this section are binary floats rounded to nearest, ties to
\* even, like binary64, with MantissaBits significant bits in place of 53
MantissaBits == 4

RECURSIVE Pow2(_)
Pow2(k) == IF k = 0 THEN 1 ELSE 2 * Pow2(k - 1)

\* a non-negative rational rounded to the nearest integer, ties to even
RoundHalfEven(a) ==
    LET f == a[1] \div a[2]
        r == QSub(a, <<f, 1>>)
    IN  IF QLt(Q(1, 2), r) \/ (r = Q(1, 2) /\ f % 2 = 1) THEN f + 1 ELSE f

\* a positive rational rounded to MantissaBits significant bits
RECURSIVE RoundPositive(_)
RoundPositive(a) ==
    IF QLe(<<Pow2(MantissaBits), 1>>, a)
    THEN QMul(<<2, 1>>, RoundPositive(QDiv(a, <<2, 1>>)))
    ELSE IF QLt(a, <<Pow2(MantissaBits - 1), 1>>)
    THEN QDiv(RoundPositive(QMul(a, <<2, 1>>)), <<2, 1>>)
    ELSE <<RoundHalfEven(a), 1>>

\* the float nearest to a rational
Fl(x) ==
    IF x = NaN \/ x = Zero THEN x
    ELSE IF x[1] < 0 THEN QNeg(RoundPositive(QNeg(x)))
    ELSE RoundPositive(x)

\* numpy's _lerp(a, b, t): a + (b - a) * t, and b - (b - a) * (1 - t) from
\* t = 0.5 on
Lerp(a, b, t) ==
    LET diff_b_a == Fl(QSub(b, a))
    IN  IF QLe(Q(1, 2), t)
        THEN Fl(QSub(b, Fl(QMul(diff_b_a, Fl(QSub(One, t))))))
        ELSE Fl(QAdd(a, Fl(QMul(diff_b_a, t))))

\* np.percentile(a, q * 100), linear interpolation between the two order
\* statistics around the position q * (n - 1)
Percentile(a, q) ==
    LET sorted == Sorted(a)
        pos    == Fl(QMul(Fl(q), <<Len(a) - 1, 1>>))
        lo     == pos[1] \div pos[2]
        gamma  == Fl(QSub(pos, <<lo, 1>>))
    IN  IF lo + 1 >= Len(a) THEN sorted[Len(a)]
        ELSE Lerp(sorted[lo + 1], sorted[lo + 2], gamma)

calculate_var(returns, confidence) == Percentile(returns, Fl(QSub(One, confidence)))

\* returns[returns <= var]
AtOrBelowVar(returns, var) == SelectSeq(returns, LAMBDA r : QLe(r, var))

\* the float sum of a sample, added up from the left
RECURSIVE FloatSum(_, _)
FloatSum(s, n) == IF n = 0 THEN Zero ELSE Fl(QAdd(FloatSum(s, n - 1), s[n]))

\* Series.mean(): nan for an empty selection
Mean(s) == IF Len(s) = 0 THEN NaN ELSE Fl(QDiv(FloatSum(s, Len(s)), <<Len(s), 1>>))

calculate_cvar(returns, confidence) ==
    LET var == calculate_var(returns, confidence)
    IN  Mean(AtOrBelowVar(returns, var))

\* the longest sample of returns, the returns and the confidence levels
MaxSample == 3
SampleReturns == {Q(-14, 128), Q(-3, 128), Zero, Q(8, 128)}
Confidences   == {Q(1, 2), Q(9, 10), Q(19, 20), Q(99, 100)}

\* series is the sample; scal keeps what the two functions return
InitVaR ==
    /\ cfg \in [confidence : Confidences]
    /\ series \in SeqsUpTo(SampleReturns, MaxSample) \ {<<>>}
    /\ scal = <<>>
    /\ calls = <<>>
    /\ tables = <<>>
    /\ dates = <<>>

CallCalculateVar ==
    /\ scal = <<>>
    /\ scal' = [var |-> calculate_var(series, cfg.confidence)]
    /\ UNCHANGED <<cfg, dates, calls, tables, series>>

CallCalculateCvar ==
    /\ scal # <<>>
    /\ DOMAIN scal = {"var"}
    /\ scal' = [var  |-> scal.var,
                tail |-> AtOrBelowVar(series, calculate_var(series, cfg.confidence)),
                cvar |-> calculate_cvar(series, cfg.confidence)]
    /\ UNCHANGED <<cfg, dates, calls, tables, series>>

NextVaR == CallCalculateVar \/ CallCalculateCvar

SpecVaR == InitVaR /\ [][NextVaR]_vars

----------------------------------------------------------------------------
(* Properties *)

Engine  == "calculate_strategy_returns"
Overlay == "apply_risk_overlay"
Hedge   == "apply_beta_hedge_overlay"

Last(seq) == seq[Len(seq)]

\* the calls of the given functions that are in progress
CallsOf(fns) == {id \in DOMAIN calls : id[1] \in fns}

IsPair == DOMAIN tables = {"A", "B"}

\* the two tables show the same signal values on rows 0 .. k - 1
SignalsAgreeBefore(k) ==
    \A j \in 0..(k - 1) : At(tables["A"].signals, j) = At(tables["B"].signals, j)

\* the outputs of a call on row k
OutputAt(id, k) ==
    <<At(calls[id].portfolio_value, k), At(calls[id].weights, k),
      At(calls[id].turnover, k)>>

\* C1: no lookahead.  Two calls of calculate_strategy_returns, or of
\* apply_risk_overlay, on tables with the same prices whose signal values
\* agree on every date strictly before t produce the same portfolio value,
\* weights and turnover on date t, whatever the signal values from t on.
C1_NoLookahead ==
    IsPair =>
        \A id \in CallsOf({Engine, Overlay}) : \A k \in 0..Day :
            (id[2] = "A" /\ SignalsAgreeBefore(k)) =>
                OutputAt(id, k) = OutputAt(<<id[1], "B", id[3]>>, k)

\* a rebalance that invests, on a date whose own signal row differs between
\* the two tables while all earlier rows agree
C1_Witness ==
    /\ IsPair
    /\ Day >= 2
    /\ SignalsAgreeBefore(Day)
    /\ At(tables["A"].signals, Day) # At(tables["B"].signals, Day)
    /\ \E id \in CallsOf({Overlay}) :
          /\ Last(calls[id].rebalance_log)
          /\ Last(calls[id].weights) # ZeroRow
          /\ Last(calls[id].turnover) # Zero

\* every signal row read so far is zero
AllZeroSignals == \A t \in DOMAIN tables : \A j \in 0..Day : At(tables[t].signals, j) = ZeroRow

\* C2: cash invariant.  With an all-zero signal matrix every simulator keeps
\* all weights and the turnover at zero on every date and the portfolio value
\* at the initial capital, for any prices, frequency and cost rate.
C2_CashInvariant ==
    AllZeroSignals =>
        \A id \in CallsOf({Engine, Overlay, Hedge}) :
            /\ \A k \in 0..Day :
                  /\ At(calls[id].weights, k) = ZeroRow
                  /\ At(calls[id].turnover, k) = Zero
                  /\ At(calls[id].portfolio_value, k) = InitialCapital
            /\ calls[id].prev_weights = ZeroRow

\* the end of a run on zero signals whose prices moved, at a positive cost
\* rate, with a rebalance after the first
C2_Witness ==
    /\ calls # <<>>
    /\ AllZeroSignals
    /\ Day = cfg.last
    /\ Last(tables["A"].prices) # TopRow
    /\ \E id \in CallsOf({Engine}) : id[3] # Zero /\ Last(calls[id].rebalance_log)
    /\ \E id \in CallsOf({Overlay}) : id[3] # Zero /\ Last(calls[id].rebalance_log)

\* the final portfolio value of call hi is at most that of call lo
FinalValueLe(hi, lo) ==
    QLe(Last(calls[hi].portfolio_value), Last(calls[lo].portfolio_value))

\* the turnover of a rebalance is at most 2, so a cost rate up to 1/2 never
\* charges more than the whole portfolio value
HalfRate == Q(1, 2)

\* C3: cost monotonicity of calculate_strategy_returns.  With prices, signals
\* and frequency fixed and two cost rates 0 <= c1 <= c2 <= 1/2, the final
\* portfolio value under c2 is at most the final portfolio value under c1.
C3_CostMonotone ==
    \A lo \in CallsOf({Engine}) : \A hi \in CallsOf({Engine}) :
        (QLe(Zero, lo[3]) /\ QLe(lo[3], hi[3]) /\ QLe(hi[3], HalfRate))
            => FinalValueLe(hi, lo)

\* the end of a run that traded on two dates, where the dearer of two rates
\* up to 1/2 left strictly less
C3_Witness ==
    /\ Day = cfg.last
    /\ \E lo \in CallsOf({Engine}) : \E hi \in CallsOf({Engine}) :
          /\ QLt(lo[3], hi[3])
          /\ QLe(hi[3], HalfRate)
          /\ At(calls[hi].turnover, 1) # Zero
          /\ At(calls[hi].turnover, 2) # Zero
          /\ FinalValueLe(hi, lo)
          /\ ~FinalValueLe(lo, hi)

\* C3 as stated, for any two cost rates 0 <= c1 <= c2: refuted by rates
\* above 1/2, where a rebalance turns the portfolio value negative
C3_AnyRates ==
    \A lo \in CallsOf({Engine}) : \A hi \in CallsOf({Engine}) :
        (QLe(Zero, lo[3]) /\ QLe(lo[3], hi[3])) => FinalValueLe(hi, lo)

NonNeg(row) == \A a \in Assets : QLe(Zero, row[a])

\* max(1, vol_max_leverage)
ExposureCap == QMax(One, cfg.args.vol_max_leverage)

\* C4: weight invariant of apply_risk_overlay and apply_beta_hedge_overlay on
\* strictly positive prices.  The weights set at a rebalance are >= 0 and sum
\* to at most max(1, vol_max_leverage); the weights drifted from non-negative
\* weights that sum to at most 1 are >= 0 and sum to at most 1.
C4_WeightInvariant ==
    \A id \in CallsOf({Overlay, Hedge}) :
        LET st == calls[id]
            w  == Last(st.weights)
        IN  /\ Last(st.rebalance_log) =>
                  (NonNeg(w) /\ QLe(RowSum(w), ExposureCap))
            /\ (NonNeg(w) /\ QLe(RowSum(w), One)) =>
                  (NonNeg(st.prev_weights) /\ QLe(RowSum(st.prev_weights), One))

\* a rebalance of each overlay simulator that the leverage cap limited
C4_Witness ==
    /\ Day >= 2
    /\ QLt(One, ExposureCap)
    /\ \A fn \in {Overlay, Hedge} : \E id \in CallsOf({fn}) :
          /\ Last(calls[id].rebalance_log)
          /\ RowSum(Last(calls[id].weights)) = ExposureCap

\* C4 as stated, the drifted weights included: refuted by the drift of a
\* levered portfolio after a loss
C4_DriftedIncluded ==
    \A id \in CallsOf({Overlay, Hedge}) :
        /\ NonNeg(Last(calls[id].weights))
        /\ QLe(RowSum(Last(calls[id].weights)), ExposureCap)
        /\ NonNeg(calls[id].prev_weights)
        /\ QLe(RowSum(calls[id].prev_weights), ExposureCap)

\* the date of the current row is not a member of rebalance_dates
OffCalendar == ~InRebalanceDates(cfg.args.rebalance_frequency, dates[Len(dates)])

Carried(st) ==
    /\ ~Last(st.rebalance_log)
    /\ Last(st.turnover) = Zero
    /\ Last(st.weights) = st.carried
    /\ Last(st.portfolio_value)
          = QMul(At(st.portfolio_value, Day - 1), QAdd(One, st.period_return))

\* C6: in calculate_strategy_returns, on every date after the second row
\* that is not a member of the rebalance calendar, the turnover is 0, no cost
\* is charged and the weights are carried, not recomputed from the signals.
C6_NoTradeOffCalendar ==
    (Day >= 2 /\ OffCalendar) =>
        \A id \in CallsOf({Engine}) : Carried(calls[id])

\* an off-calendar date after the second row on which the signals ask for
\* other weights than the ones carried, at a positive cost rate
C6_Witness ==
    /\ Day >= 2
    /\ OffCalendar
    /\ \E id \in CallsOf({Engine}) :
          /\ id[3] # Zero
          /\ calls[id].carried # ZeroRow
          /\ TargetWeights(SignalsShifted(tables[id[2]].signals, Day)) # ZeroRow
          /\ TargetWeights(SignalsShifted(tables[id[2]].signals, Day))
                # calls[id].carried

\* C6 as stated, for every off-calendar date: refuted on the second row,
\* where `or i == 1` forces a rebalance
C6_EveryOffCalendarDate ==
    (Day >= 1 /\ OffCalendar) =>
        \A id \in CallsOf({Engine}) : Carried(calls[id])

\* the current date opens a calendar month, or a calendar week
NewMonth == Day >= 1 /\ Month(At(dates, Day)) # Month(At(dates, Day - 1))
NewWeek  == Day >= 2 /\ Week(At(dates, Day)) # Week(At(dates, Day - 1))

\* C7: rebalance calendar of calculate_strategy_returns.  With 'M' the target
\* weights are recomputed on the first trading day of every calendar month of
\* the price table, and with 'W' at least once in every calendar week of it,
\* whether or not the month-start or week-end day is a date of the index.
C7_RebalanceCalendar ==
    \A id \in CallsOf({Engine}) :
        /\ (cfg.args.rebalance_frequency = "M" /\ NewMonth)
              => Last(calls[id].rebalance_log)
        /\ (cfg.args.rebalance_frequency = "W" /\ NewWeek)
              => \E k \in 1..(Day - 1) :
                    /\ Week(At(dates, k)) = Week(At(dates, Day - 1))
                    /\ At(calls[id].rebalance_log, k)

\* the two tables show the same prices on rows 0 .. k - 1
PricesAgreeBefore(k) ==
    \A j \in 0..(k - 1) : At(tables["A"].prices, j) = At(tables["B"].prices, j)

\* what a rebalance set: the two scalars and the adjusted target weights
Adjusted(id) ==
    <<calls[id].dd_scalar, calls[id].vol_scalar, Last(calls[id].weights)>>

\* C8: overlay no-lookahead.  At a rebalance on date t, two calls of
\* apply_risk_overlay, or of apply_beta_hedge_overlay, on tables with the same
\* signals whose prices agree on every date up to t-1 use the same drawdown
\* scalar and volatility scalar and set the same adjusted target weights.
C8_OverlayNoLookahead ==
    IsPair =>
        \A id \in CallsOf({Overlay, Hedge}) :
            (/\ id[2] = "A"
             /\ Day >= 1
             /\ Last(calls[id].rebalance_log)
             /\ PricesAgreeBefore(Day))
                => Adjusted(id) = Adjusted(<<id[1], "B", id[3]>>)

\* the step function of the claim: 1 above threshold_1, scale_1 down to
\* threshold_2 excluded, scale_2 from threshold_2 down
TwoTier(d) ==
    IF QLt(cfg.args.dd_threshold_1, d) THEN One
    ELSE IF QLt(cfg.args.dd_threshold_2, d) THEN cfg.args.dd_scale_1
    ELSE cfg.args.dd_scale_2

\* the drawdown from the running peak at the end of rows 0 .. k of a series
DrawdownAt(portfolio_value, k) == CurrentDrawdown(Slice(portfolio_value, 0, k + 1))

\* C9: the drawdown scalar is the two-tier step function of the current
\* drawdown from the running peak, both in the series drawdown_scalar returns
\* for a value series and in the scalar the overlay loops compute at a
\* rebalance from the values up to the previous row.
C9_TwoTierStep ==
    /\ \A id \in CallsOf({Overlay, Hedge}) :
          (Day >= 1 /\ Last(calls[id].rebalance_log)) =>
              calls[id].dd_scalar
                  = TwoTier(DrawdownAt(calls[id].portfolio_value, Day - 1))
    /\ \A id \in DOMAIN scal : \A k \in 0..Day :
          scal[id][k + 1] = TwoTier(DrawdownAt(calls[id].portfolio_value, k))

\* a finished run whose last rebalance met a drawdown of exactly threshold_1
\* and scaled by scale_1, and a value series that drawdown_scalar maps to all
\* three tiers
C9_Witness ==
    /\ scal # <<>>
    /\ \E id \in CallsOf({Overlay}) :
          /\ Last(calls[id].rebalance_log)
          /\ DrawdownAt(calls[id].portfolio_value, Day - 1) = cfg.args.dd_threshold_1
          /\ calls[id].dd_scalar = cfg.args.dd_scale_1
          /\ Last(calls[id].weights) # ZeroRow
    /\ \E id \in DOMAIN scal :
          /\ {scal[id][k] : k \in 1..(Day + 1)}
                = {One, cfg.args.dd_scale_1, cfg.args.dd_scale_2}

\* C10: zero-variance guard of volatility_scalar.  Wherever the trailing
\* realized volatility is exactly zero, or undefined for lack of history,
\* the scalar returned is the neutral value 1.0.
C10_ZeroVarianceGuard ==
    scal # <<>> =>
        \A k \in 1..Len(series) :
            RealizedVol(series, cfg.lookback, k) \in {NaN, Zero} => scal[k] = One

\* the input of a beta_hedge_weights call is a non-negative weight row with
\* a positive sum and a hedge ratio in [0, 1]
HedgeInput ==
    /\ \A a \in Assets : QLe(Zero, cfg.weights[a])
    /\ QLt(Zero, RowSum(cfg.weights))
    /\ QLe(Zero, cfg.hedge_ratio) /\ QLe(cfg.hedge_ratio, One)

PortfolioBeta(w) == RowSum(RowMul(w, cfg.betas))

\* C11: for a non-negative weight row with a positive sum, any betas and a
\* hedge ratio in [0, 1], every weight beta_hedge_weights returns is >= 0 and
\* the returned weights sum to the sum of the input weights
C11_LongOnlyPreserving ==
    (scal # <<>> /\ HedgeInput) =>
        /\ \A a \in Assets : QLe(Zero, scal[a])
        /\ RowSum(scal) = RowSum(cfg.weights)

\* C12: for weights with a positive portfolio beta B, the weights
\* beta_hedge_weights returns for the hedge ratio h have the portfolio beta
\* (1 - h) * B
C12_HedgeTarget ==
    (scal # <<>> /\ HedgeInput /\ QLt(Zero, PortfolioBeta(cfg.weights))) =>
        PortfolioBeta(scal) = QMul(QSub(One, cfg.hedge_ratio), PortfolioBeta(cfg.weights))

\* a call of apply_beta_hedge_overlay whose benchmark_col is no column
MissingBenchmark(id) ==
    id[1] = Hedge /\ cfg.args.benchmark_col \notin Assets

\* C13: apply_beta_hedge_overlay called with a benchmark_col that is not a
\* column of prices raises a ValueError naming the column, and the call
\* never has a loop state: no day is simulated for it
C13_MissingBenchmarkRaises ==
    \A id \in DOMAIN scal :
        MissingBenchmark(id) =>
            /\ scal[id].raised = "ValueError"
            /\ scal[id].message[2] = cfg.args.benchmark_col
            /\ id \notin DOMAIN calls

\* the missing column was refused while the other simulator went on to
\* simulate its days
C13_Witness ==
    /\ scal # <<>>
    /\ \E id \in DOMAIN scal : MissingBenchmark(id) /\ scal[id].raised = "ValueError"
    /\ \E id \in DOMAIN calls : id[1] = Overlay /\ Len(calls[id].portfolio_value) = cfg.last + 1

\* a call of an overlay simulator with a window that is not positive
InvalidWindow(id) ==
    \/ cfg.args.vol_lookback <= 0
    \/ id[1] = Hedge /\ cfg.args.beta_lookback <= 0

\* C14: an overlay simulator called with vol_lookback <= 0 or beta_lookback
\* <= 0 raises an error and never simulates a day
C14_InvalidWindowRejected ==
    \A id \in DOMAIN scal :
        InvalidWindow(id) => scal[id].raised # "nothing" /\ id \notin DOMAIN calls

\* the last iteration of the call carried its weights and had 1 + period_return = 0
ZeroGrowthCarry(id) ==
    /\ Day >= 1
    /\ ~Last(calls[id].rebalance_log)
    /\ calls[id].period_return = QNeg(One)

\* C15: on a date outside the rebalance branch where 1 + period_return is
\* exactly 0, in all three simulators, the carried weights after the step
\* equal the carried weights before it
C15_DriftGuard ==
    \A id \in DOMAIN calls :
        ZeroGrowthCarry(id) => calls[id].prev_weights = calls[id].carried

\* a date moved on by n years, k times over
RECURSIVE AddYearsTimes(_, _, _)
AddYearsTimes(date, n, k) ==
    IF k = 0 THEN date ELSE AddYearsTimes(AddYears(date, n), n, k - 1)

IsLeapDay(date) == date[2] = 2 /\ date[3] = 29

\* window k (from 0) of the log is the window that starts at start
WindowIs(k, start) ==
    LET w == calls[k + 1]
    IN  /\ w.train_start = start
        /\ w.train_end = AddYears(w.train_start, cfg.train_years)
        /\ w.val_start = w.train_end
        /\ w.val_end = AddYears(w.val_start, cfg.val_years)

\* C16: the windows rolling_walk_forward generates: window k starts at the
\* first date moved on by step_years k times, its training range lasts
\* train_years, its validation range begins on the date the training range
\* ends on (the ranges are half open, so they share no date) and lasts
\* val_years, consecutive windows start step_years apart, no generated window
\* ends after the last date and the loop returns at the first that would;
\* when the first date is no leap day, window k starts k * step_years after it
C16_WindowSequence ==
    /\ \A k \in 0..(Len(calls) - 1) :
          /\ WindowIs(k, AddYearsTimes(cfg.index.first, cfg.step_years, k))
          /\ ~PastData(calls[k + 1], cfg.index)
          /\ k > 0 => calls[k + 1].train_start = AddYears(calls[k].train_start, cfg.step_years)
          /\ ~IsLeapDay(cfg.index.first) =>
                WindowIs(k, AddYears(cfg.index.first, k * cfg.step_years))
    /\ scal.window_start = AddYearsTimes(cfg.index.first, cfg.step_years, Len(calls))
    /\ scal.window_id = Len(calls)
    /\ scal.returned => PastData(CurrentWindow, cfg.index)

\* the loop returned after four windows or more of an index that starts on a
\* leap day
C16_Witness ==
    /\ scal.returned
    /\ Len(calls) >= 4
    /\ IsLeapDay(cfg.index.first)

\* C16 as stated: window k is [start + k*S, start + k*S + T) followed by
\* [start + k*S + T, start + k*S + T + V), in years from the first date
C16_ClosedForm ==
    \A k \in 0..(Len(calls) - 1) :
        LET w == calls[k + 1]
        IN  /\ w.train_start = AddYears(cfg.index.first, k * cfg.step_years)
            /\ w.train_end = AddYears(cfg.index.first, k * cfg.step_years + cfg.train_years)
            /\ w.val_start = w.train_end
            /\ w.val_end = AddYears(cfg.index.first,
                                    k * cfg.step_years + cfg.train_years + cfg.val_years)

\* the changed prices of table "B" all lie in the validation range of window k
ChangedInValidationOnly(k) ==
    /\ "B" \in cfg.runs
    /\ Ordinal(series["A"][k].val_start) <= Ordinal(cfg.perturbed[1])
    /\ Ordinal(cfg.perturbed[2]) <= Ordinal(series["A"][k].val_end)

\* C17: in every processed window best_span_train is a candidate whose
\* training Sharpe is defined and >= the training Sharpe of every candidate
\* with a defined Sharpe, whenever one has; and a table that differs only
\* inside the validation range of the window selects the same candidate
C17_Selection ==
    /\ \A t \in DOMAIN series : \A k \in 1..Len(series[t]) :
          LET r == series[t][k]
          IN  /\ r.best_span_train \in SpanSet(cfg.spans)
              /\ \A span \in SpanSet(cfg.spans) :
                    r.train_sharpes[span] # None =>
                        /\ r.best_sharpe_train # None
                        /\ QLe(r.train_sharpes[span], r.best_sharpe_train)
    /\ \A k \in 1..Len(series["A"]) :
          ChangedInValidationOnly(k) =>
              series["B"][k].best_span_train = series["A"][k].best_span_train

\* a window whose validation simulations differ between the tables, with one
\* training simulation that raised, and whose selection is not the first span
C17_Witness ==
    /\ Len(series["A"]) >= 1
    /\ ChangedInValidationOnly(1)
    /\ tables[1]["B"].val # tables[1]["A"].val
    /\ \E span \in SpanSet(cfg.spans) : tables[1]["A"].train[span] = Raised
    /\ series["A"][1].best_span_train # cfg.spans[1]

\* window k (from 1) of the log had too few rows in one of its ranges
Insufficient(k) == InsufficientData(calls[k], cfg.index)

\* C18: every generated window with fewer than 252 training rows or fewer
\* than 126 validation rows has an entry of its own in the results that
\* rolling_walk_forward returns
C18_InsufficientEntry ==
    \A t \in DOMAIN series : \A k \in 1..Len(calls) :
        Insufficient(k) => \E j \in 1..Len(series[t]) : series[t][j].window_id = k

\* C19: in the cost sweeps an exception raised by the simulation of one
\* scenario or cost level never leaves the harness: the call goes on to its
\* other tasks and returns a report
C19_FailureIsolation ==
    scal.status # "raised"

\* the four thresholds, read off the list of windows
SelectedSpans == {cfg.windows[k].best_span_train : k \in 1..Len(cfg.windows)}
RefSharpes ==
    {cfg.windows[k].val_126.sharpe : k \in 1..Len(cfg.windows)} \ {None, NaN}
RatioHolds ==
    \A a, b \in SelectedSpans : a <= 2 * b
Top3Holds ==
    2 * Cardinality({k \in 1..Len(cfg.windows) : cfg.windows[k].rank_126_train <= 3})
        >= Len(cfg.windows)
VarianceHolds ==
    LET defined == SelectSeq(cfg.windows, LAMBDA w : w.val_126.sharpe \notin {None, NaN})
        sharpes == [k \in 1..Len(defined) |-> defined[k].val_126.sharpe]
    IN  Len(sharpes) > 1 => QLe(NpVar(sharpes), Q(1, 2))
NoNegativeWindow ==
    \A x \in RefSharpes : QLe(Zero, x)

Violated ==
    {c \in {"max_optimal_ratio", "min_top3_pct", "max_sharpe_variance", "min_any_window_sharpe"} :
        \/ c = "max_optimal_ratio" /\ ~RatioHolds
        \/ c = "min_top3_pct" /\ ~Top3Holds
        \/ c = "max_sharpe_variance" /\ ~VarianceHolds
        \/ c = "min_any_window_sharpe" /\ ~NoNegativeWindow}

\* C20: check_failure_criteria returns, with passed true exactly when the
\* four thresholds hold and with one reason in failures for each threshold
\* that is violated and no other
C20_Verdict ==
    scal # <<>> =>
        /\ scal.raised = "nothing"
        /\ scal.passed <=> Violated = {}
        /\ Len(scal.failures) = Cardinality(Violated)
        /\ {scal.failures[k].criterion : k \in 1..Len(scal.failures)} = Violated

\* calculate_cvar has returned
CvarReturned == scal # <<>> /\ "cvar" \in DOMAIN scal

\* C21: for every non-empty sample and confidence level, the returns at or
\* below calculate_var are not none and calculate_cvar <= calculate_var
C21_CvarBelowVar ==
    CvarReturned =>
        /\ Len(scal.tail) > 0
        /\ scal.cvar # NaN
        /\ QLe(scal.cvar, scal.var)


\* C22: a scalar returned by volatility_scalar is never NaN; where
\* target_vol / realized_vol is defined it lies in [min_scalar, max_leverage],
\* and where it is undefined (fewer than 21 observations, or 0 / 0) the
\* scalar is 1.0 whatever the bounds are
ScalarUndefined(k) ==
    FloatDiv(cfg.target_vol, RealizedVol(series, cfg.lookback, k)) = NaN
InBounds(x) == QLe(cfg.min_scalar, x) /\ QLe(x, cfg.max_leverage)
C22_ScalarBoundsWhereDefined ==
    \A k \in DOMAIN scal :
       /\ scal[k] # NaN
       /\ IF ScalarUndefined(k) THEN scal[k] = One ELSE InBounds(scal[k])

\* C22 as stated: every scalar lies in [min_scalar, max_leverage]
C22_ScalarBounds ==
    \A k \in DOMAIN scal : scal[k] # NaN /\ InBounds(scal[k])

\* a call with max_leverage below 1 on a series with a date of insufficient
\* history and a date of sufficient history
C22_Witness ==
    /\ Len(scal) >= MinPeriods
    /\ QLt(cfg.max_leverage, One)
    /\ ScalarUndefined(1)
    /\ ~ScalarUndefined(MinPeriods)


\* C23: cost monotonicity of apply_risk_overlay with drawdown control.  With
\* prices, signals and frequency fixed and two cost rates 0 <= c1 <= c2, the
\* final portfolio value under c2 is at most the final portfolio value under
\* c1.
C23_OverlayCostMonotone ==
    Day = cfg.last =>
        \A lo \in CallsOf({Overlay}) : \A hi \in CallsOf({Overlay}) :
            (QLe(Zero, lo[3]) /\ QLe(lo[3], hi[3])) => FinalValueLe(hi, lo)


\* the maximum drawdown of a value path: the lowest drawdown from the running
\* peak over its dates
MaxDrawdown(pv) ==
    SeqMinRange([k \in 1..Len(pv) |-> CurrentDrawdown(SubSeq(pv, 1, k))], 1, Len(pv))

\* C24: drawdown control does not deepen losses.  At zero cost the maximum
\* drawdown of the value path of apply_risk_overlay with drawdown control is
\* no lower than the maximum drawdown of the path without it, on the same
\* prices and signals.
C24_NoDeeperDrawdown ==
    \A w \in CallsOf({Overlay}) : \A n \in CallsOf({Overlay}) :
        (Len(w) = 4 /\ Len(n) = 4 /\ w[4] = "with_dd" /\ n[4] = "no_dd" /\ w[3] = Zero)
            => QLe(MaxDrawdown(calls[n].portfolio_value),
                   MaxDrawdown(calls[w].portfolio_value))


\* the weights of python row j of call id after drifting with the returns of
\* that row (the weights before the first iteration are all zero)
EffectiveWeights(id, j) ==
    IF j = 0 THEN ZeroRow
    ELSE LET w             == At(calls[id].weights, j)
             daily_returns == DailyReturns(tables[id[2]].prices, j)
         IN  DriftWeights(w, daily_returns, RowSum(RowMul(w, daily_returns)))

\* C25: turnover against effective weights.  On every row t where
\* calculate_strategy_returns rebalances, the turnover is the sum over the
\* assets of |target(t) - e(t-1)|, e(t-1) being the weights of row t-1
\* drifted with the returns of row t-1, also when row t-1 rebalanced.
C25_TurnoverAgainstEffective ==
    \A id \in CallsOf({Engine}) : \A t \in 1..Day :
        At(calls[id].rebalance_log, t)
            => At(calls[id].turnover, t)
                 = Turnover(At(calls[id].weights, t), EffectiveWeights(id, t - 1))


\* the raw target weights of the last row of call id times dd_scalar *
\* vol_scalar, the scalars computed from the rows before it
ScaledTarget(id) ==
    RowScale(TargetWeights(SignalsShifted(tables[id[2]].signals, Day)),
             QMul(DdScalar(ArgsOf(id), calls[id].portfolio_value, Day),
                  VolScalar(ArgsOf(id), calls[id].portfolio_returns, Day)))

\* the value of the row before the last, less the cost of the last row's
\* turnover, grown by the last row's return
AccountedValue(id) ==
    QMul(ChargeCost(At(calls[id].portfolio_value, Day - 1),
                    QMul(Last(calls[id].turnover), id[3])),
         QAdd(One, calls[id].period_return))

\* C26: stage ordering of apply_beta_hedge_overlay.  On a rebalance the
\* weights set are the beta hedge of the raw targets scaled by dd_scalar *
\* vol_scalar, and the turnover and the cost are those of that final vector
\* against the carried weights; on any other date the carried weights are
\* held unscaled and nothing is charged.
C26_StageOrdering ==
    \A id \in CallsOf({Hedge}) :
        Day >= 1 =>
            /\ Last(calls[id].rebalance_log) =>
                  Last(calls[id].weights)
                      = HedgedTarget(ArgsOf(id),
                                     CurrentBetas(tables[id[2]].prices,
                                                  ArgsOf(id).beta_lookback, Day),
                                     ScaledTarget(id))
            /\ ~Last(calls[id].rebalance_log) =>
                  /\ Last(calls[id].weights) = calls[id].carried
                  /\ Last(calls[id].turnover) = Zero
            /\ Last(calls[id].turnover)
                  = IF Last(calls[id].rebalance_log)
                    THEN Turnover(Last(calls[id].weights), calls[id].carried)
                    ELSE Zero
            /\ Last(calls[id].portfolio_value) = AccountedValue(id)

\* a rebalance whose scalar is not 1, whose hedge changes the scaled vector
\* and whose turnover is charged
C26_Witness ==
    \E id \in CallsOf({Hedge}) :
        /\ Day >= 2
        /\ Last(calls[id].rebalance_log)
        /\ ScaledTarget(id) # TargetWeights(SignalsShifted(tables[id[2]].signals, Day))
        /\ Last(calls[id].weights) # ScaledTarget(id)
        /\ Last(calls[id].weights) # ZeroRow
        /\ Last(calls[id].turnover) # Zero
        /\ id[3] # Zero


\* portfolio_value.pct_change().fillna(0)
PctChange(pv) ==
    [ k \in 1..Len(pv) |->
        IF k = 1 THEN Zero
        ELSE FillNa0(QSub(FDiv(pv[k], pv[k - 1]), One)) ]

\* the drawdown of the value path of call id stays above dd_threshold_1 on
\* every date
NeverReaches(id) ==
    \A k \in 1..Len(calls[id].portfolio_value) :
        QLt(ArgsOf(id).dd_threshold_1,
            CurrentDrawdown(SubSeq(calls[id].portfolio_value, 1, k)))

\* C27: the overlay refines the base simulator.  With vol_target = None and
\* a value path whose drawdown never reaches dd_threshold_1,
\* apply_risk_overlay and calculate_strategy_returns, called with the same
\* prices, signals, capital, cost rate and frequency, produce the same
\* portfolio values, returns, turnover and weights (the positions are the
\* same sum of the shifted signals in both).
C27_OverlayRefinesBase ==
    \A o \in CallsOf({Overlay}) : \A e \in CallsOf({Engine}) :
        (Len(o) = 3 /\ o[2] = e[2] /\ o[3] = e[3]
           /\ cfg.args.vol_target = None /\ NeverReaches(o))
            => /\ calls[o].portfolio_value = calls[e].portfolio_value
               /\ PctChange(calls[o].portfolio_value) = PctChange(calls[e].portfolio_value)
               /\ calls[o].turnover = calls[e].turnover
               /\ calls[o].weights = calls[e].weights

\* the end of a run that paid for two trades and lost value without
\* reaching the first threshold
C27_Witness ==
    \E o \in CallsOf({Overlay}) : \E e \in CallsOf({Engine}) :
        /\ Day = cfg.last
        /\ o[2] = e[2] /\ o[3] = e[3] /\ o[3] # Zero
        /\ cfg.args.vol_target = None
        /\ NeverReaches(o)
        /\ Cardinality({k \in 1..Day : At(calls[o].turnover, k) # Zero}) >= 2
        /\ QLt(CurrentDrawdown(calls[o].portfolio_value), Zero)
        /\ calls[o].portfolio_value = calls[e].portfolio_value


\* the rebalance of row t of call id found the drawdown at or below
\* dd_threshold_2
FullExit(id, t) ==
    /\ t > 1
    /\ At(calls[id].rebalance_log, t)
    /\ QLe(CurrentDrawdown(Slice(calls[id].portfolio_value, 0, t)),
           ArgsOf(id).dd_threshold_2)

C29_Termination == <>(scal.returned)

\* a call that returned after a skipped window and a later processed one
C29_Witness ==
    /\ scal.returned
    /\ \E j \in 1..Len(calls) : \E k \in 1..Len(calls) :
          j < k /\ ~calls[j].processed /\ calls[k].processed


\* the candidates of a window entry whose training Sharpe ratio is defined
\* and strictly above that of span 126
AboveRef(r) ==
    {k \in DOMAIN r.train_sharpes :
        r.train_sharpes[k] # None /\ QLt(r.train_sharpes[RefSpan], r.train_sharpes[k])}

\* C30: top-3 counting.  A window entry is counted for rank_126_top3_pct
\* (rank_126_train <= 3) only if span 126 was a candidate whose training
\* simulation gave a defined Sharpe ratio and fewer than three candidates
\* had a strictly higher training Sharpe ratio.
C30_Top3Counting ==
    \A t \in DOMAIN series : \A j \in 1..Len(series[t]) :
        LET r == series[t][j]
        IN  r.rank_126_train <= 3
              => /\ RefSpan \in DOMAIN r.train_sharpes
                 /\ r.train_sharpes[RefSpan] # None
                 /\ Cardinality(AboveRef(r)) < 3

=============================================================================
